---- MODULE Spec2Model ----
(***************************************************************************)
(* AgentVault: the proposal / approval state machine (ApprovalFlow), the   *)
(* agent's lane routing (AgentRunner.checkAndRebalance) and the encrypted  *)
(* session-key custody (SecureSessionKeyManager).                          *)
(*                                                                         *)
(* The yield side: the rate history (RateHistory) and the rebalance         *)
(* decision (YieldMonitor.compareYields).                                  *)
(*                                                                         *)
(* The specifications share the variables:                                 *)
(*   Spec        - the public operations of one ApprovalFlow instance      *)
(*   SpecAudit   - one ApprovalFlow with an audit callback that may fail   *)
(*   SpecAgent   - one AgentRunner driving its ApprovalFlow and key manager*)
(*   SpecKeys    - two SecureSessionKeyManager instances                   *)
(*   SpecRevoke  - one SecureSessionKeyManager with keys being revoked     *)
(*   SpecHistory - one RateHistory and its clock                           *)
(*   SpecRetention - one RateHistory filled to its limit of entries        *)
(*   SpecSnapshots - one YieldMonitor taking snapshots with failing reads  *)
(*   SpecYield   - one YieldMonitor polling its protocols                  *)
(*   SpecExpiry  - one SecureSessionKeyManager with keys running out       *)
(*   SpecBacklog - one RateHistory fed with samples stamped in the past    *)
(*   SpecCycles  - one AgentRunner over several poll cycles                *)
(*   SpecVault   - the wallet contract over one bundle of operations       *)
(*                                                                         *)
(* An optional value (config.approvalTimeout, response.webAuthnAuth,       *)
(* config.autoExecuteThreshold) is a sequence of length 0 (undefined) or 1.*)
(***************************************************************************)
EXTENDS Integers, Sequences, FiniteSets, TLC

VARIABLES
    now,                \* Date.now(), in milliseconds (minutes for the rate history)
    approvalTimeout,    \* ApprovalFlow.config.approvalTimeout (optional)
    proposals,          \* ApprovalFlow.proposals: id -> RebalanceProposal
    pendingApprovals,   \* ApprovalFlow.pendingApprovals: insertion-ordered Map
    autoExecuteThreshold, \* AgentRunner.config.autoExecuteThreshold (optional)
    isRunning,          \* AgentRunner.isRunning
    signedOps,          \* instructions the agent signed and handed to submitUserOp
    encryptionKey,      \* SecureSessionKeyManager.encryptionKey, per manager
    encryptedKeys,      \* SecureSessionKeyManager.encryptedKeys, per manager
    yieldConfig,        \* YieldMonitor.config: useTWAP, enableAnomalyDetection
    history,            \* RateHistory.history: protocolId -> RateEntry[]
    vault,              \* AgentVault: storage, transient slot, operations in flight
    ret                 \* the last call: operation, arguments, outcome

vars == <<now, approvalTimeout, proposals, pendingApprovals, autoExecuteThreshold,
          isRunning, signedOps, encryptionKey, encryptedKeys, yieldConfig, history,
          vault, ret>>

flowVars == <<approvalTimeout, proposals, pendingApprovals>>
agentVars == <<autoExecuteThreshold, isRunning, signedOps>>
keyVars == <<encryptionKey, encryptedKeys>>
yieldVars == <<yieldConfig, history>>

-----------------------------------------------------------------------------
(* Bounds of the model *)

MaxProposals == 1       \* proposals one flow creates
MaxTicks == 2           \* clock units the clock runs for
MaxCallData == 2        \* distinct unsigned instructions offered to requestApproval
MaxPrivKey == 1         \* distinct session private keys

-----------------------------------------------------------------------------
(* Program constants *)

DEFAULT_TIMEOUT == 86400000
SIG_TYPE_PASSKEY == 0
SIG_TYPE_SESSION_KEY == 1
AUTO_EXECUTE_THRESHOLD == 100000000

PENDING_APPROVAL == "pending_approval"
APPROVED == "approved"
REJECTED == "rejected"
EXECUTED == "executed"
EXPIRED == "expired"
FAILED == "failed"

ProposalStatus == {PENDING_APPROVAL, APPROVED, REJECTED, EXECUTED, EXPIRED, FAILED}

-----------------------------------------------------------------------------
(* Inputs *)

ProposalIds == 1..MaxProposals
Amounts == {AUTO_EXECUTE_THRESHOLD - 1, AUTO_EXECUTE_THRESHOLD, AUTO_EXECUTE_THRESHOLD + 1}
ApprovalTimeouts == {<<>>, <<1000>>}
UserOps == {[callData |-> c, signature |-> <<>>] : c \in 1..MaxCallData}
WebAuthnAuths == {<<>>, <<"assertion">>}
ApprovalResponses ==
    [proposalId : ProposalIds, approved : BOOLEAN, webAuthnAuth : WebAuthnAuths]

NoValue == [kind |-> "none"]

-----------------------------------------------------------------------------
(* JavaScript Map, insertion-ordered: a sequence of [key, value] entries *)

MapHas(m, k) == \E i \in 1..Len(m) : m[i].key = k

MapGet(m, k) == m[CHOOSE i \in 1..Len(m) : m[i].key = k].value

\* (mutant) an array push in place of Map.set: an existing key is not replaced
MapSet_appends(m, k, v) == Append(m, [key |-> k, value |-> v])

MapSet(m, k, v) ==
    IF MapHas(m, k)
    THEN [i \in 1..Len(m) |-> IF m[i].key = k THEN [key |-> k, value |-> v] ELSE m[i]]
    ELSE Append(m, [key |-> k, value |-> v])

MapDelete(m, k) == SelectSeq(m, LAMBDA e : e.key /= k)

MapValues(m) == [i \in 1..Len(m) |-> m[i].value]

-----------------------------------------------------------------------------
(* WalletManager: hashing and passkey signature *)

getUserOpHash(userOp) == <<"keccak256", userOp.callData>>

attachPasskeySignature(userOp, webAuthnAuth) ==
    [userOp EXCEPT !.signature = <<SIG_TYPE_PASSKEY, webAuthnAuth>>]

-----------------------------------------------------------------------------
(* ApprovalFlow *)

\* nanoid(12): an id no earlier proposal of the flow has
nanoid(P) == Cardinality(DOMAIN P) + 1

createProposal(P, timeoutCfg, t, amount) ==
    LET timeout == IF timeoutCfg = <<>> THEN DEFAULT_TIMEOUT ELSE timeoutCfg[1]
        proposal == [id |-> nanoid(P),
                     amount |-> amount,
                     expiresAt |-> t + timeout,
                     status |-> PENDING_APPROVAL]
    IN  [p \in DOMAIN P \cup {proposal.id} |->
            IF p = proposal.id THEN proposal ELSE P[p]]

updateProposalStatus(P, proposalId, status) ==
    IF proposalId \in DOMAIN P
    THEN [P EXCEPT ![proposalId].status = status]
    ELSE P

approvalRequest(proposal, userOp) ==
    [proposalId |-> proposal.id,
     userOpHash |-> getUserOpHash(userOp),
     userOp |-> userOp,
     expiresAt |-> proposal.expiresAt]

\* (mutant) the comparison turned round
requestExpired_flipped(t, request) == t < request.expiresAt

\* new Date() > request.expiresAt
requestExpired(t, request) == t > request.expiresAt

requestApproval(Q, proposal, userOp) ==
    MapSet(Q, proposal.id, approvalRequest(proposal, userOp))

\* (mutant) the approved request is not deleted from the pending set
processApproval_keepsRequest(P, Q, t, response) ==
    LET id == response.proposalId IN
    IF ~MapHas(Q, id)
    THEN [proposals |-> P, pending |-> Q, err |-> "NotFound", value |-> NoValue]
    ELSE LET pendingRequest == MapGet(Q, id) IN
         IF requestExpired(t, pendingRequest)
         THEN [proposals |-> updateProposalStatus(P, id, EXPIRED),
               pending |-> MapDelete(Q, id),
               err |-> "Expired", value |-> NoValue]
         ELSE IF ~response.approved
         THEN [proposals |-> updateProposalStatus(P, id, REJECTED),
               pending |-> MapDelete(Q, id),
               err |-> "Rejected", value |-> NoValue]
         ELSE IF response.webAuthnAuth = <<>>
         THEN [proposals |-> P, pending |-> Q,
               err |-> "MissingSignature", value |-> NoValue]
         ELSE [proposals |-> updateProposalStatus(P, id, APPROVED),
               pending |-> Q,
               err |-> "none",
               value |-> attachPasskeySignature(pendingRequest.userOp,
                                                response.webAuthnAuth[1])]

processApproval_consumesUnsigned(P, Q, t, response) ==
    LET id == response.proposalId IN
    IF ~MapHas(Q, id)
    THEN [proposals |-> P, pending |-> Q, err |-> "NotFound", value |-> NoValue]
    ELSE LET pendingRequest == MapGet(Q, id) IN
         IF requestExpired(t, pendingRequest)
         THEN [proposals |-> updateProposalStatus(P, id, EXPIRED),
               pending |-> MapDelete(Q, id),
               err |-> "Expired", value |-> NoValue]
         ELSE IF ~response.approved
         THEN [proposals |-> updateProposalStatus(P, id, REJECTED),
               pending |-> MapDelete(Q, id),
               err |-> "Rejected", value |-> NoValue]
         ELSE IF response.webAuthnAuth = <<>>
         THEN [proposals |-> P, pending |-> MapDelete(Q, id),
               err |-> "MissingSignature", value |-> NoValue]
         ELSE [proposals |-> updateProposalStatus(P, id, APPROVED),
               pending |-> MapDelete(Q, id),
               err |-> "none",
               value |-> attachPasskeySignature(pendingRequest.userOp,
                                                response.webAuthnAuth[1])]

processApproval_rejectionFirst(P, Q, t, response) ==
    LET id == response.proposalId IN
    IF ~MapHas(Q, id)
    THEN [proposals |-> P, pending |-> Q, err |-> "NotFound", value |-> NoValue]
    ELSE LET pendingRequest == MapGet(Q, id) IN
         IF ~response.approved
         THEN [proposals |-> updateProposalStatus(P, id, REJECTED),
               pending |-> MapDelete(Q, id),
               err |-> "Rejected", value |-> NoValue]
         ELSE IF requestExpired(t, pendingRequest)
         THEN [proposals |-> updateProposalStatus(P, id, EXPIRED),
               pending |-> MapDelete(Q, id),
               err |-> "Expired", value |-> NoValue]
         ELSE IF response.webAuthnAuth = <<>>
         THEN [proposals |-> P, pending |-> Q,
               err |-> "MissingSignature", value |-> NoValue]
         ELSE [proposals |-> updateProposalStatus(P, id, APPROVED),
               pending |-> MapDelete(Q, id),
               err |-> "none",
               value |-> attachPasskeySignature(pendingRequest.userOp,
                                                response.webAuthnAuth[1])]

processApproval(P, Q, t, response) ==
    LET id == response.proposalId IN
    IF ~MapHas(Q, id)
    THEN [proposals |-> P, pending |-> Q, err |-> "NotFound", value |-> NoValue]
    ELSE LET pendingRequest == MapGet(Q, id) IN
         IF requestExpired(t, pendingRequest)
         THEN [proposals |-> updateProposalStatus(P, id, EXPIRED),
               pending |-> MapDelete(Q, id),
               err |-> "Expired", value |-> NoValue]
         ELSE IF ~response.approved
         THEN [proposals |-> updateProposalStatus(P, id, REJECTED),
               pending |-> MapDelete(Q, id),
               err |-> "Rejected", value |-> NoValue]
         ELSE IF response.webAuthnAuth = <<>>
         THEN [proposals |-> P, pending |-> Q,
               err |-> "MissingSignature", value |-> NoValue]
         ELSE [proposals |-> updateProposalStatus(P, id, APPROVED),
               pending |-> MapDelete(Q, id),
               err |-> "none",
               value |-> attachPasskeySignature(pendingRequest.userOp,
                                                response.webAuthnAuth[1])]

rejectProposal(P, Q, proposalId) ==
    IF MapHas(Q, proposalId)
    THEN [proposals |-> updateProposalStatus(P, proposalId, REJECTED),
          pending |-> MapDelete(Q, proposalId)]
    ELSE [proposals |-> P, pending |-> Q]

\* outcome: "success" | "reverted" (result.success = false) | "throws"
\* (submitUserOp or waitForUserOp throws)
executeApprovedUserOp_alwaysExecuted(P, proposalId, outcome) ==
    IF proposalId \in DOMAIN P
    THEN [P EXCEPT ![proposalId].status = EXECUTED]
    ELSE P

executeApprovedUserOp(P, proposalId, outcome) ==
    IF proposalId \in DOMAIN P
    THEN [P EXCEPT ![proposalId].status =
            IF outcome = "success" THEN EXECUTED ELSE FAILED]
    ELSE P

expiredKeys(Q, t) == {Q[i].key : i \in {j \in 1..Len(Q) : requestExpired(t, Q[j].value)}}

cleanupExpired_sweepsAll(P, Q, t) ==
    [proposals |-> [p \in DOMAIN P |->
                       IF MapHas(Q, p)
                       THEN [P[p] EXCEPT !.status = EXPIRED] ELSE P[p]],
     pending |-> <<>>]

cleanupExpired(P, Q, t) ==
    [proposals |-> [p \in DOMAIN P |->
                       IF p \in expiredKeys(Q, t)
                       THEN [P[p] EXCEPT !.status = EXPIRED] ELSE P[p]],
     pending |-> SelectSeq(Q, LAMBDA e : ~requestExpired(t, e.value))]

\* how many times executeApprovedUserOp calls walletManager.submitUserOp:
\* the one call that opens its try block, whatever comes of it
submitUserOpCalls(outcome) == 1

\* The audit entries an operation hands to logAudit, in order; an entry is
\* its event type and proposal id.
PROPOSAL_CREATED == "proposal_created"
APPROVAL_REQUESTED == "approval_requested"
APPROVAL_RECEIVED == "approval_received"
APPROVAL_REJECTED == "approval_rejected"
APPROVAL_EXPIRED == "approval_expired"
EXECUTION_STARTED == "execution_started"
EXECUTION_SUCCESS == "execution_success"
EXECUTION_FAILED == "execution_failed"

AuditEntry(eventType, proposalId) == [eventType |-> eventType, proposalId |-> proposalId]

createProposalAudit(P) == <<AuditEntry(PROPOSAL_CREATED, nanoid(P))>>

requestApprovalAudit(proposal) == <<AuditEntry(APPROVAL_REQUESTED, proposal.id)>>

processApprovalAudit(Q, t, response) ==
    LET id == response.proposalId IN
    IF ~MapHas(Q, id) THEN <<>>
    ELSE IF requestExpired(t, MapGet(Q, id)) THEN <<AuditEntry(APPROVAL_EXPIRED, id)>>
    ELSE IF ~response.approved THEN <<AuditEntry(APPROVAL_REJECTED, id)>>
    ELSE IF response.webAuthnAuth = <<>> THEN <<>>
    ELSE <<AuditEntry(APPROVAL_RECEIVED, id)>>

rejectProposalAudit(Q, proposalId) ==
    IF MapHas(Q, proposalId) THEN <<AuditEntry(APPROVAL_REJECTED, proposalId)>> ELSE <<>>

executeApprovedUserOpAudit(proposalId, outcome) ==
    <<AuditEntry(EXECUTION_STARTED, proposalId),
      AuditEntry(IF outcome = "success" THEN EXECUTION_SUCCESS ELSE EXECUTION_FAILED,
                 proposalId)>>

cleanupExpiredAudit(Q, t) ==
    LET expired == SelectSeq(Q, LAMBDA e : requestExpired(t, e.value)) IN
    [i \in 1..Len(expired) |-> AuditEntry(APPROVAL_EXPIRED, expired[i].key)]

\* config.onAuditLog(entry) returns, throws, or returns a promise that is
\* rejected later.  logAudit catches the throw; it drops the promise.
AuditCallbacks == {"ok", "throws", "rejects"}
\* What the runtime does with a rejected promise nobody handles: it warns, or
\* it ends the process once the current synchronous run is over.
UnhandledRejections == {"warn", "terminate"}
\* how the callback and the runtime behave during one operation
AuditBehaviours ==
    {b \in AuditCallbacks \X UnhandledRejections : b[1] /= "rejects" => b[2] = "warn"}
\* the behaviour of the callback, where it was called at all
callbackOf(b, audit) == IF audit = <<>> THEN "ok" ELSE b[1]
unhandledRejection(b, audit) ==
    b[1] = "rejects" /\ audit /= <<>> /\ b[2] = "terminate"

getPendingApprovals(Q) == MapValues(Q)

-----------------------------------------------------------------------------
(* SecureSessionKeyManager *)

Managers == {"m1", "m2"}
MasterKeys == {"K1", "K2"}
\* Byte strings are tagged tuples: 32 random key bytes, a 12-byte nonce.
\* No operation of the manager reads the nonce's value: one nonce stands for
\* the outcomes of randomBytes(12).
IVs == {<<"iv", 1>>}
PrivKeys == {<<"key", n>> : n \in 1..MaxPrivKey}
SessionKeyConfigs == [validUntil : {1, 2}, spendLimit : {1000}]

Undefined == [undefined |-> TRUE]

\* Encodings: bytes <-> hex string, bytes <-> base64 string
bytesToHex(bytes) == <<"0x", bytes>>
hexToBytes(hex) == hex[2]
toBase64(bytes) == <<"base64", bytes>>
fromBase64(str) == str[2]

\* viem privateKeyToAccount: the account (address) a private key derives
privateKeyToAccount(privateKey) == [address |-> <<"address", hexToBytes(privateKey)>>]

\* AES-256-GCM, symbolically: only the key that encrypted recomputes the tag
createCipheriv(key, iv, data) ==
    LET encrypted == <<"aes-256-gcm", key, iv, data>>
    IN  [encrypted |-> encrypted, authTag |-> <<"ghash", key, encrypted>>]

createDecipheriv(key, iv, encrypted, authTag) ==
    IF authTag = <<"ghash", key, encrypted>> /\ encrypted[3] = iv
    THEN [ok |-> TRUE, decrypted |-> encrypted[4]]
    ELSE [ok |-> FALSE]

encrypt(key, iv, data) ==
    LET c == createCipheriv(key, iv, data)
    IN  [ciphertext |-> toBase64(c.encrypted),
         iv |-> toBase64(iv),
         authTag |-> toBase64(c.authTag)]

\* (mutant) the authentication tag is not checked
decrypt_skipsAuthTag(key, ciphertext, ivBase64, authTagBase64) ==
    [ok |-> TRUE, decrypted |-> fromBase64(ciphertext)[4]]

decrypt(key, ciphertext, ivBase64, authTagBase64) ==
    createDecipheriv(key, fromBase64(ivBase64), fromBase64(ciphertext),
                     fromBase64(authTagBase64))

\* A Map<Address, EncryptedSessionKey> is a function on the stored addresses
KeySet(K, address, encryptedKey) ==
    [a \in DOMAIN K \cup {address} |->
        IF a = address THEN encryptedKey ELSE K[a]]

KeyDelete(K, address) == [a \in DOMAIN K \ {address} |-> K[a]]

\* (mutant) the key bytes are encoded and stored without being encrypted
storeEncrypted_plaintext(K, key, iv, privateKeyBytes, address, config) ==
    LET encrypted == encrypt(key, iv, privateKeyBytes)
        encryptedKey == [address |-> address,
                         encryptedPrivateKey |-> toBase64(privateKeyBytes),
                         iv |-> encrypted.iv,
                         authTag |-> encrypted.authTag,
                         config |-> config]
    IN  [keys |-> KeySet(K, address, encryptedKey), value |-> encryptedKey]

storeEncrypted(K, key, iv, privateKeyBytes, address, config) ==
    LET encrypted == encrypt(key, iv, privateKeyBytes)
        encryptedKey == [address |-> address,
                         encryptedPrivateKey |-> encrypted.ciphertext,
                         iv |-> encrypted.iv,
                         authTag |-> encrypted.authTag,
                         config |-> config]
    IN  [keys |-> KeySet(K, address, encryptedKey), value |-> encryptedKey]

\* privateKeyBytes: crypto.randomBytes(32); iv: crypto.randomBytes(IV_LENGTH)
generateSessionKey(K, key, privateKeyBytes, iv, config) ==
    LET privateKey == bytesToHex(privateKeyBytes)
        address == privateKeyToAccount(privateKey).address
    IN  storeEncrypted(K, key, iv, privateKeyBytes, address, config)

importSessionKey(K, key, privateKey, iv, config) ==
    LET privateKeyBytes == hexToBytes(privateKey)
        address == privateKeyToAccount(privateKey).address
    IN  storeEncrypted(K, key, iv, privateKeyBytes, address, config)

loadEncryptedKey(K, encryptedKey) == KeySet(K, encryptedKey.address, encryptedKey)

getEncryptedKey(K, address) == IF address \in DOMAIN K THEN K[address] ELSE Undefined

\* Date.now() / 1000 > validUntil, with t = Date.now() in milliseconds: the
\* quotient is not rounded
decryptForSigningExpired(t, validUntil) ==
    \/ t \div 1000 > validUntil
    \/ (t \div 1000 = validUntil /\ t % 1000 > 0)

decryptForSigning(K, key, t, address) ==
    IF address \notin DOMAIN K
    THEN [err |-> "NotFound", decrypted |-> FALSE, value |-> NoValue]
    ELSE LET encrypted == K[address] IN
         IF decryptForSigningExpired(t, encrypted.config.validUntil)
         THEN [err |-> "Expired", decrypted |-> FALSE, value |-> NoValue]
         ELSE LET d == decrypt(key, encrypted.encryptedPrivateKey,
                               encrypted.iv, encrypted.authTag)
              IN  IF ~d.ok
                  THEN [err |-> "AuthTagMismatch", decrypted |-> TRUE, value |-> NoValue]
                  ELSE [err |-> "none", decrypted |-> TRUE,
                        value |-> [address |-> encrypted.address,
                                   privateKey |-> bytesToHex(d.decrypted),
                                   config |-> encrypted.config]]

revokeSessionKey_clearsAll(K, address) ==
    [keys |-> [a \in {} |-> K[a]], value |-> address \in DOMAIN K]

revokeSessionKey(K, address) ==
    [keys |-> KeyDelete(K, address), value |-> address \in DOMAIN K]

listSessionKeys(K) == DOMAIN K

\* k.config.validUntil > Date.now() / 1000
getValidSessionKeys(K, t) == {K[a] : a \in {b \in DOMAIN K : K[b].config.validUntil * 1000 > t}}

\* key.config.validUntil <= Date.now() / 1000
keyCleanupExpired_strictlyAfter(K, t) ==
    LET expired == {a \in DOMAIN K : K[a].config.validUntil * 1000 < t}
    IN  [keys |-> [a \in DOMAIN K \ expired |-> K[a]], value |-> Cardinality(expired)]

keyCleanupExpired(K, t) ==
    LET expired == {a \in DOMAIN K : K[a].config.validUntil * 1000 <= t}
    IN  [keys |-> [a \in DOMAIN K \ expired |-> K[a]], value |-> Cardinality(expired)]

-----------------------------------------------------------------------------
(* Specification Spec: the public operations of one ApprovalFlow *)

FlowRet(op, id, approved, auth, err, value) ==
    [op |-> op, id |-> id, approved |-> approved, webAuthnAuth |-> auth,
     err |-> err, value |-> value]

Init ==
    /\ now = 0
    /\ approvalTimeout \in ApprovalTimeouts
    /\ proposals = <<>>
    /\ pendingApprovals = <<>>
    /\ autoExecuteThreshold = <<>>
    /\ isRunning = FALSE
    /\ signedOps = {}
    /\ encryptionKey = <<>>
    /\ encryptedKeys = <<>>
    /\ yieldConfig = <<>>
    /\ history = <<>>
    /\ ret = FlowRet("new", 0, FALSE, <<>>, "none", NoValue)
    /\ vault = <<>>

\* The clock advances by one of `steps`, up to MaxTicks units of `unit` ms.
Tick(steps, unit) ==
    \E d \in steps :
        /\ now <= MaxTicks * unit - d
        /\ now' = now + d
        /\ ret' = [op |-> "tick"]
        /\ UNCHANGED <<vault, flowVars, agentVars, keyVars, yieldVars>>

\* now > expiresAt is decided at the granularity of the timeout
FlowTick == Tick({1000}, 1000)

\* The flow stores the amount and never reads it: one amount stands for all.
CreateProposal ==
    \E amount \in {AUTO_EXECUTE_THRESHOLD + 1} :
        /\ Cardinality(DOMAIN proposals) < MaxProposals
        /\ proposals' = createProposal(proposals, approvalTimeout, now, amount)
        /\ ret' = FlowRet("createProposal", nanoid(proposals), FALSE, <<>>, "none", NoValue)
        /\ UNCHANGED <<vault, now, approvalTimeout, pendingApprovals, agentVars, keyVars, yieldVars>>

UpdateProposalStatus ==
    \E id \in ProposalIds, status \in ProposalStatus :
        /\ proposals' = updateProposalStatus(proposals, id, status)
        /\ ret' = FlowRet("updateProposalStatus", id, FALSE, <<>>, "none", NoValue)
        /\ UNCHANGED <<vault, now, approvalTimeout, pendingApprovals, agentVars, keyVars, yieldVars>>

\* The proposal handed in is one this flow created (createProposal's result or
\* getProposal's): the object, with whatever status it has by now.
RequestApproval ==
    \E id \in DOMAIN proposals, userOp \in UserOps :
        /\ pendingApprovals' = requestApproval(pendingApprovals, proposals[id], userOp)
        /\ ret' = FlowRet("requestApproval", id, FALSE, <<>>, "none",
                          approvalRequest(proposals[id], userOp))
                      @@ [replaced |-> MapHas(pendingApprovals, id)]
        /\ UNCHANGED <<vault, now, approvalTimeout, proposals, agentVars, keyVars, yieldVars>>

ProcessApproval ==
    \E response \in ApprovalResponses :
        LET r == processApproval(proposals, pendingApprovals, now, response) IN
        /\ proposals' = r.proposals
        /\ pendingApprovals' = r.pending
        /\ ret' = FlowRet("processApproval", response.proposalId, response.approved,
                          response.webAuthnAuth, r.err, r.value)
        /\ UNCHANGED <<vault, now, approvalTimeout, agentVars, keyVars, yieldVars>>

RejectProposal ==
    \E id \in ProposalIds :
        LET r == rejectProposal(proposals, pendingApprovals, id) IN
        /\ proposals' = r.proposals
        /\ pendingApprovals' = r.pending
        /\ ret' = FlowRet("rejectProposal", id, FALSE, <<>>, "none", NoValue)
        /\ UNCHANGED <<vault, now, approvalTimeout, agentVars, keyVars, yieldVars>>

ExecuteApprovedUserOp ==
    \E id \in ProposalIds, outcome \in {"success", "reverted", "throws"} :
        /\ proposals' = executeApprovedUserOp(proposals, id, outcome)
        /\ ret' = FlowRet("executeApprovedUserOp", id, FALSE, <<>>,
                          IF outcome = "throws" THEN "SubmitError" ELSE "none", NoValue)
        /\ UNCHANGED <<vault, now, approvalTimeout, pendingApprovals, agentVars, keyVars, yieldVars>>

CleanupExpired ==
    LET r == cleanupExpired(proposals, pendingApprovals, now) IN
    /\ proposals' = r.proposals
    /\ pendingApprovals' = r.pending
    /\ ret' = FlowRet("cleanupExpired", 0, FALSE, <<>>, "none", NoValue)
    /\ UNCHANGED <<vault, now, approvalTimeout, agentVars, keyVars, yieldVars>>

Next ==
    \/ FlowTick
    \/ CreateProposal
    \/ UpdateProposalStatus
    \/ RequestApproval
    \/ ProcessApproval
    \/ RejectProposal
    \/ ExecuteApprovedUserOp
    \/ CleanupExpired

Spec == Init /\ [][Next]_vars

\* The human lane alone: the operations of the approval state machine without
\* the raw status setter and the execution step.
NextHumanLane ==
    \/ FlowTick
    \/ CreateProposal
    \/ RequestApproval
    \/ ProcessApproval
    \/ RejectProposal
    \/ CleanupExpired

SpecHumanLane == Init /\ [][NextHumanLane]_vars

-----------------------------------------------------------------------------
(* Specification SpecAudit: one ApprovalFlow with an audit callback.  ret   *)
(* also holds the audit entries handed to the callback by the operation,   *)
(* how the callback behaved, and whether the process was ended.            *)

AuditRet(op, id, approved, auth, err, value, audit, callback, terminated) ==
    [op |-> op, id |-> id, approved |-> approved, webAuthnAuth |-> auth,
     err |-> err, value |-> value, audit |-> audit, callback |-> callback,
     terminated |-> terminated]

\* one unsigned instruction stands for all
AuditUserOp == [callData |-> 1, signature |-> <<>>]

InitAudit ==
    /\ now = 0
    /\ approvalTimeout \in ApprovalTimeouts
    /\ proposals = <<>>
    /\ pendingApprovals = <<>>
    /\ autoExecuteThreshold = <<>>
    /\ isRunning = FALSE
    /\ signedOps = {}
    /\ encryptionKey = <<>>
    /\ encryptedKeys = <<>>
    /\ yieldConfig = <<>>
    /\ history = <<>>
    /\ ret = AuditRet("new", 0, FALSE, <<>>, "none", NoValue, <<>>, "ok", FALSE)
    /\ vault = <<>>

AuditTick ==
    /\ ~ret.terminated
    /\ \E d \in {1000} :
        /\ now <= MaxTicks * 1000 - d
        /\ now' = now + d
        /\ ret' = AuditRet("tick", 0, FALSE, <<>>, "none", NoValue, <<>>, "ok", FALSE)
        /\ UNCHANGED <<vault, flowVars, agentVars, keyVars, yieldVars>>

AuditCreateProposal ==
    \E amount \in {AUTO_EXECUTE_THRESHOLD + 1}, b \in AuditBehaviours :
        LET audit == createProposalAudit(proposals) IN
        /\ ~ret.terminated
        /\ Cardinality(DOMAIN proposals) < MaxProposals
        /\ proposals' = createProposal(proposals, approvalTimeout, now, amount)
        /\ ret' = AuditRet("createProposal", nanoid(proposals), FALSE, <<>>, "none", NoValue,
                           audit, callbackOf(b, audit), unhandledRejection(b, audit))
        /\ UNCHANGED <<vault, now, approvalTimeout, pendingApprovals, agentVars, keyVars, yieldVars>>

AuditUpdateProposalStatus ==
    \E id \in ProposalIds, status \in ProposalStatus :
        /\ ~ret.terminated
        /\ proposals' = updateProposalStatus(proposals, id, status)
        /\ ret' = AuditRet("updateProposalStatus", id, FALSE, <<>>, "none", NoValue,
                           <<>>, "ok", FALSE)
        /\ UNCHANGED <<vault, now, approvalTimeout, pendingApprovals, agentVars, keyVars, yieldVars>>

AuditRequestApproval ==
    \E id \in DOMAIN proposals, b \in AuditBehaviours :
        LET audit == requestApprovalAudit(proposals[id]) IN
        /\ ~ret.terminated
        /\ pendingApprovals' = requestApproval(pendingApprovals, proposals[id], AuditUserOp)
        /\ ret' = AuditRet("requestApproval", id, FALSE, <<>>, "none",
                           approvalRequest(proposals[id], AuditUserOp),
                           audit, callbackOf(b, audit), unhandledRejection(b, audit))
        /\ UNCHANGED <<vault, now, approvalTimeout, proposals, agentVars, keyVars, yieldVars>>

AuditProcessApproval ==
    \E response \in ApprovalResponses, b \in AuditBehaviours :
        LET r == processApproval(proposals, pendingApprovals, now, response)
            audit == processApprovalAudit(pendingApprovals, now, response)
        IN  /\ ~ret.terminated
            /\ proposals' = r.proposals
            /\ pendingApprovals' = r.pending
            /\ ret' = AuditRet("processApproval", response.proposalId, response.approved,
                               response.webAuthnAuth, r.err, r.value,
                               audit, callbackOf(b, audit), unhandledRejection(b, audit))
            /\ UNCHANGED <<vault, now, approvalTimeout, agentVars, keyVars, yieldVars>>

AuditRejectProposal ==
    \E id \in ProposalIds, b \in AuditBehaviours :
        LET r == rejectProposal(proposals, pendingApprovals, id)
            audit == rejectProposalAudit(pendingApprovals, id)
        IN  /\ ~ret.terminated
            /\ proposals' = r.proposals
            /\ pendingApprovals' = r.pending
            /\ ret' = AuditRet("rejectProposal", id, FALSE, <<>>, "none", NoValue,
                               audit, callbackOf(b, audit), unhandledRejection(b, audit))
            /\ UNCHANGED <<vault, now, approvalTimeout, agentVars, keyVars, yieldVars>>

\* logAudit(EXECUTION_STARTED) comes before the awaits of submitUserOp and
\* waitForUserOp: a process that ends on the dropped promise ends there
AuditExecuteApprovedUserOp ==
    \E id \in ProposalIds, outcome \in {"success", "reverted", "throws"},
       b \in AuditBehaviours :
        LET audit == executeApprovedUserOpAudit(id, outcome) IN
        /\ ~ret.terminated
        /\ IF unhandledRejection(b, audit)
           THEN /\ proposals' = proposals
                /\ ret' = AuditRet("executeApprovedUserOp", id, FALSE, <<>>,
                                   "ProcessTerminated", NoValue, <<audit[1]>>, b[1], TRUE)
           ELSE /\ proposals' = executeApprovedUserOp(proposals, id, outcome)
                /\ ret' = AuditRet("executeApprovedUserOp", id, FALSE, <<>>,
                                   IF outcome = "throws" THEN "SubmitError" ELSE "none",
                                   NoValue, audit, b[1], FALSE)
                          @@ [outcome |-> outcome,
                              submissions |-> submitUserOpCalls(outcome)]
        /\ UNCHANGED <<vault, now, approvalTimeout, pendingApprovals, agentVars, keyVars, yieldVars>>

AuditCleanupExpired ==
    \E b \in AuditBehaviours :
        LET r == cleanupExpired(proposals, pendingApprovals, now)
            audit == cleanupExpiredAudit(pendingApprovals, now)
        IN  /\ ~ret.terminated
            /\ proposals' = r.proposals
            /\ pendingApprovals' = r.pending
            /\ ret' = AuditRet("cleanupExpired", 0, FALSE, <<>>, "none", NoValue,
                               audit, callbackOf(b, audit), unhandledRejection(b, audit))
            /\ UNCHANGED <<vault, now, approvalTimeout, agentVars, keyVars, yieldVars>>

NextAudit ==
    \/ AuditTick
    \/ AuditCreateProposal
    \/ AuditUpdateProposalStatus
    \/ AuditRequestApproval
    \/ AuditProcessApproval
    \/ AuditRejectProposal
    \/ AuditExecuteApprovedUserOp
    \/ AuditCleanupExpired

SpecAudit == InitAudit /\ [][NextAudit]_vars

-----------------------------------------------------------------------------
(* Claims about the approval state machine *)

Lifecycle ==
    {<<PENDING_APPROVAL, APPROVED>>, <<APPROVED, EXECUTED>>, <<APPROVED, FAILED>>,
     <<PENDING_APPROVAL, REJECTED>>, <<PENDING_APPROVAL, EXPIRED>>}

PendingIndexes(Q, id) == {i \in 1..Len(Q) : Q[i].value.proposalId = id}

\* C1: a proposal's status changes only along PENDING_APPROVAL -> APPROVED,
\* APPROVED -> EXECUTED | FAILED, PENDING_APPROVAL -> REJECTED | EXPIRED, so a
\* status of EXECUTED, FAILED, REJECTED or EXPIRED never changes again.
C1_StatusFollowsLifecycle ==
    [][\A id \in DOMAIN proposals :
          proposals'[id].status /= proposals[id].status
              => <<proposals[id].status, proposals'[id].status>> \in Lifecycle]_vars

\* C2: processApproval for a pending request with now > expiresAt fails with
\* the expiry error whatever the response holds, returns no signed
\* instruction, leaves the status EXPIRED and the request no longer listed.
C2_ExpiredApprovalFails ==
    [][(/\ ret'.op = "processApproval"
        /\ MapHas(pendingApprovals, ret'.id)
        /\ now > MapGet(pendingApprovals, ret'.id).expiresAt)
          => /\ ret'.err = "Expired"
             /\ ret'.value = NoValue
             /\ proposals'[ret'.id].status = EXPIRED
             /\ \A i \in 1..Len(getPendingApprovals(pendingApprovals')) :
                    getPendingApprovals(pendingApprovals')[i].proposalId /= ret'.id]_vars

C2_Witness ==
    /\ ret.op = "processApproval"
    /\ ret.err = "Expired"
    /\ ret.approved
    /\ ret.webAuthnAuth /= <<>>
    /\ proposals[ret.id].status = EXPIRED

\* C3: on a proposal whose status is REJECTED, processApproval with
\* approved = true fails NotFound and leaves the status REJECTED.
C3_RejectedStaysRejected ==
    [][\A id \in DOMAIN proposals :
          (/\ proposals[id].status = REJECTED
           /\ ret'.op = "processApproval"
           /\ ret'.id = id
           /\ ret'.approved)
              => /\ ret'.err = "NotFound"
                 /\ proposals'[id].status = REJECTED]_vars

\* C4: an approval is single-use.  A processApproval that returns a signed
\* instruction had a pending request, sets the status APPROVED and deletes the
\* request; without a pending request processApproval fails NotFound and
\* changes nothing; and only requestApproval makes a request pending.  So of the
\* processApproval calls that follow one requestApproval, at most one returns a
\* signed instruction.
C4_ApprovalIsSingleUse ==
    [][/\ ret'.op = "processApproval" =>
            /\ ret'.err = "none" =>
                  /\ MapHas(pendingApprovals, ret'.id)
                  /\ ~MapHas(pendingApprovals', ret'.id)
                  /\ proposals'[ret'.id].status = APPROVED
                  /\ ret'.value.signature /= <<>>
            /\ ret'.err /= "none" => ret'.value = NoValue
            /\ ~MapHas(pendingApprovals, ret'.id) =>
                  /\ ret'.err = "NotFound"
                  /\ pendingApprovals' = pendingApprovals
                  /\ proposals' = proposals
       /\ \A id \in ProposalIds :
            (~MapHas(pendingApprovals, id) /\ MapHas(pendingApprovals', id))
                => (ret'.op = "requestApproval" /\ ret'.id = id)]_vars

\* the second use of an approval: refused, the proposal stays approved
C4_Witness ==
    /\ ret.op = "processApproval"
    /\ ret.approved
    /\ ret.webAuthnAuth /= <<>>
    /\ ret.err = "NotFound"
    /\ ret.id \in DOMAIN proposals
    /\ proposals[ret.id].status = APPROVED

\* C5: a request is pending only while its proposal is known to the flow and
\* PENDING_APPROVAL.
C5_PendingOnlyWhilePendingApproval ==
    \A i \in 1..Len(pendingApprovals) :
        LET id == pendingApprovals[i].value.proposalId IN
        /\ id \in DOMAIN proposals
        /\ proposals[id].status = PENDING_APPROVAL

\* C6: getPendingApprovals never lists two requests of one proposal, and a
\* requestApproval for a proposal that has a pending request replaces it: the
\* list keeps its length and holds the new request, once.
C6_OnePendingRequestPerProposal ==
    /\ [](\A id \in ProposalIds :
            Cardinality(PendingIndexes(pendingApprovals, id)) <= 1)
    /\ [][ret'.op = "requestApproval" =>
            /\ \E i \in 1..Len(pendingApprovals') :
                  /\ getPendingApprovals(pendingApprovals')[i] = ret'.value
                  /\ PendingIndexes(pendingApprovals', ret'.id) = {i}
            /\ ret'.replaced => Len(pendingApprovals') = Len(pendingApprovals)]_vars

\* a second requestApproval has replaced the pending request of a proposal
C6_Witness ==
    /\ ret.op = "requestApproval"
    /\ ret.replaced
    /\ Len(pendingApprovals) = 1
    /\ getPendingApprovals(pendingApprovals)[1] = ret.value
    /\ ret.value.userOp.callData = 2

-----------------------------------------------------------------------------
(* Claims about rejection, the sweep and the audit trail *)

\* the proposal of the id is unknown or no longer awaits approval
NotAwaitingApproval(id) ==
    id \notin DOMAIN proposals \/ proposals[id].status /= PENDING_APPROVAL

\* C25: rejectProposal for an id that is unknown, or whose proposal is
\* already APPROVED, REJECTED, EXPIRED, EXECUTED or FAILED, does not throw,
\* changes no proposal and no pending request and hands no entry to the
\* audit callback; and a second rejectProposal right after a first changes
\* nothing and emits nothing.
C25_RejectIsIdempotentSafe ==
    /\ [](\A id \in ProposalIds :
            LET once == rejectProposal(proposals, pendingApprovals, id) IN
            /\ rejectProposal(once.proposals, once.pending, id) = once
            /\ rejectProposalAudit(once.pending, id) = <<>>)
    /\ [][(ret'.op = "rejectProposal" /\ NotAwaitingApproval(ret'.id)) =>
            /\ ret'.err = "none"
            /\ proposals' = proposals
            /\ pendingApprovals' = pendingApprovals
            /\ ret'.audit = <<>>]_vars

\* the rejection response that rejectProposal(id) stands for
RejectionResponse(id) ==
    [proposalId |-> id, approved |-> FALSE, webAuthnAuth |-> <<>>]

\* C26: from every state and at every time, rejectProposal(id) leaves the
\* proposals and the pending requests as processApproval of the response
\* {proposalId: id, approved: false} would have left them from the same
\* state at the same time.
C26_RejectEquivalentToRejection ==
    [][ret'.op = "rejectProposal" =>
        LET explicit == processApproval(proposals, pendingApprovals, now,
                                        RejectionResponse(ret'.id)) IN
        /\ proposals' = explicit.proposals
        /\ pendingApprovals' = explicit.pending]_vars

\* the request of a pending entry is no longer pending after the step
Removed(e) == \A j \in 1..Len(pendingApprovals') : pendingApprovals'[j].key /= e.key

\* C27: after cleanupExpired, no pending request has an expiresAt earlier
\* than now; the proposal of every request the sweep removed reads EXPIRED;
\* and every request that has not passed its expiry is still pending,
\* unchanged, with its proposal's status unchanged.
C27_SweepRemovesExactlyExpired ==
    [][ret'.op = "cleanupExpired" =>
        /\ \A j \in 1..Len(pendingApprovals') :
              ~(pendingApprovals'[j].value.expiresAt < now')
        /\ \A i \in 1..Len(pendingApprovals) :
              LET e == pendingApprovals[i] IN
              /\ Removed(e) => proposals'[e.key].status = EXPIRED
              /\ ~(e.value.expiresAt < now) =>
                    /\ \E j \in 1..Len(pendingApprovals') : pendingApprovals'[j] = e
                    /\ proposals'[e.key].status = proposals[e.key].status]_vars

\* a sweep has removed a request, whose proposal reads EXPIRED
C27_Witness ==
    /\ ret.op = "cleanupExpired"
    /\ ret.audit /= <<>>
    /\ proposals[ret.audit[1].proposalId].status = EXPIRED
    /\ ~MapHas(pendingApprovals, ret.audit[1].proposalId)

\* a sweep has left a request that had not passed its expiry
C27_WitnessKept ==
    /\ ret.op = "cleanupExpired"
    /\ pendingApprovals /= <<>>

\* the operations that hand entries to the audit callback
AuditedOperations ==
    {"createProposal", "requestApproval", "processApproval", "rejectProposal",
     "cleanupExpired", "executeApprovedUserOp"}

FlowOutcome(P, Q, err) == [proposals |-> P, pending |-> Q, err |-> err]

\* the states and outcomes the operation of the step reaches from the state
\* before the step when the audit callback succeeds
SucceedingRuns ==
    CASE ret'.op = "createProposal" ->
            {FlowOutcome(createProposal(proposals, approvalTimeout, now, amount),
                         pendingApprovals, "none") : amount \in Amounts}
      [] ret'.op = "requestApproval" ->
            {FlowOutcome(proposals,
                         requestApproval(pendingApprovals, proposals[ret'.id], AuditUserOp),
                         "none")}
      [] ret'.op = "processApproval" ->
            LET r == processApproval(proposals, pendingApprovals, now,
                        [proposalId |-> ret'.id, approved |-> ret'.approved,
                         webAuthnAuth |-> ret'.webAuthnAuth])
            IN  {FlowOutcome(r.proposals, r.pending, r.err)}
      [] ret'.op = "rejectProposal" ->
            LET r == rejectProposal(proposals, pendingApprovals, ret'.id)
            IN  {FlowOutcome(r.proposals, r.pending, "none")}
      [] ret'.op = "cleanupExpired" ->
            LET r == cleanupExpired(proposals, pendingApprovals, now)
            IN  {FlowOutcome(r.proposals, r.pending, "none")}
      [] ret'.op = "executeApprovedUserOp" ->
            {FlowOutcome(executeApprovedUserOp(proposals, ret'.id, outcome),
                         pendingApprovals,
                         IF outcome = "throws" THEN "SubmitError" ELSE "none") :
                outcome \in {"success", "reverted", "throws"}}

\* C28: an operation whose audit callback throws, or returns a promise that
\* is rejected, reaches a state and an outcome that the same operation
\* reaches from the same state when the callback succeeds.
C28_AuditFailureNeverAborts ==
    [][(ret'.op \in AuditedOperations /\ ret'.callback \in {"throws", "rejects"}) =>
        FlowOutcome(proposals', pendingApprovals', ret'.err) \in SucceedingRuns]_vars

\* the audit event type that tells of a proposal reaching the status
MatchingEvent(status) ==
    CASE status = APPROVED -> <<APPROVAL_RECEIVED>>
      [] status = REJECTED -> <<APPROVAL_REJECTED>>
      [] status = EXPIRED -> <<APPROVAL_EXPIRED>>
      [] status = EXECUTED -> <<EXECUTION_SUCCESS>>
      [] status = FAILED -> <<EXECUTION_FAILED>>
      [] OTHER -> <<>>

\* how many entries of the type and the proposal the step handed to the
\* audit callback
Emitted(eventType, id) ==
    Cardinality({i \in 1..Len(ret'.audit) :
                    /\ ret'.audit[i].eventType = eventType
                    /\ ret'.audit[i].proposalId = id})

\* C29: in every step, a proposal that is created comes with exactly one
\* proposal_created entry, an approval request with exactly one
\* approval_requested entry, and a proposal whose status changes with
\* exactly one entry of the type matching its new status, each carrying the
\* proposal's id.
C29_EveryTransitionAudited ==
    [][/\ \A id \in DOMAIN proposals' \ DOMAIN proposals :
              Emitted(PROPOSAL_CREATED, id) = 1
       /\ ret'.op = "requestApproval" => Emitted(APPROVAL_REQUESTED, ret'.id) = 1
       /\ \A id \in DOMAIN proposals' \cap DOMAIN proposals :
              proposals'[id].status /= proposals[id].status =>
                  /\ MatchingEvent(proposals'[id].status) /= <<>>
                  /\ Emitted(MatchingEvent(proposals'[id].status)[1], id) = 1]_vars

\* C32: an executeApprovedUserOp that runs to its end hands
\* execution_started to the audit callback first and submits the instruction
\* once.  On a successful outcome the proposal reads EXECUTED and the second
\* entry is execution_success; when the submission or the wait throws, or
\* the outcome is unsuccessful, the proposal reads FAILED and the second
\* entry is execution_failed, a thrown error reaching the caller.  No other
\* proposal and no pending request changes.
C32_ExecutionOutcomeRecorded ==
    [][(ret'.op = "executeApprovedUserOp" /\ ~ret'.terminated) =>
        LET id == ret'.id
            succeeded == ret'.outcome = "success"
        IN  /\ ret'.submissions = 1
            /\ ret'.audit = <<AuditEntry(EXECUTION_STARTED, id),
                              AuditEntry(IF succeeded THEN EXECUTION_SUCCESS
                                                      ELSE EXECUTION_FAILED, id)>>
            /\ id \in DOMAIN proposals =>
                  proposals'[id].status = IF succeeded THEN EXECUTED ELSE FAILED
            /\ (ret'.err /= "none") = (ret'.outcome = "throws")
            /\ DOMAIN proposals' = DOMAIN proposals
            /\ \A p \in DOMAIN proposals \ {id} : proposals'[p] = proposals[p]
            /\ pendingApprovals' = pendingApprovals]_vars

\* an approved proposal has been executed with a successful outcome
C32_Witness ==
    /\ ret.op = "executeApprovedUserOp"
    /\ ~ret.terminated
    /\ ret.outcome = "success"
    /\ ret.id \in DOMAIN proposals
    /\ proposals[ret.id].status = EXECUTED

\* an execution has failed: reverted, or thrown
C32_WitnessFailed ==
    /\ ret.op = "executeApprovedUserOp"
    /\ ~ret.terminated
    /\ ret.outcome = "throws"
    /\ ret.id \in DOMAIN proposals
    /\ proposals[ret.id].status = FAILED

\* the pending requests for the id before the step (one at most)
RequestsFor(id) ==
    {pendingApprovals[i].value : i \in {j \in 1..Len(pendingApprovals) :
                                          pendingApprovals[j].key = id}}

\* the first check of the claim's list that matches the response of the step
FirstMatch ==
    IF RequestsFor(ret'.id) = {} THEN "NotFound"
    ELSE IF \E request \in RequestsFor(ret'.id) : now > request.expiresAt THEN "Expired"
    ELSE IF ~ret'.approved THEN "Rejected"
    ELSE IF ret'.webAuthnAuth = <<>> THEN "MissingSignature"
    ELSE "none"

\* C33: processApproval fails, or succeeds, by the first check that matches,
\* in the order NotFound, EXPIRED, REJECTED, MissingSignature, APPROVED:
\* NotFound changes nothing, and the three statuses are those of the
\* proposal afterwards.
C33_ChecksInFixedOrder ==
    [][ret'.op = "processApproval" =>
        /\ ret'.err = FirstMatch
        /\ FirstMatch = "NotFound" =>
              proposals' = proposals /\ pendingApprovals' = pendingApprovals
        /\ FirstMatch = "Expired" => proposals'[ret'.id].status = EXPIRED
        /\ FirstMatch = "Rejected" => proposals'[ret'.id].status = REJECTED
        /\ FirstMatch = "none" => proposals'[ret'.id].status = APPROVED]_vars

\* an expired request answered with approved = false has ended EXPIRED
C33_Witness ==
    /\ ret.op = "processApproval"
    /\ ~ret.approved
    /\ ret.err = "Expired"
    /\ proposals[ret.id].status = EXPIRED

\* C35: a processApproval that fails for the missing assertion leaves the
\* proposal (PENDING_APPROVAL, if it was) and every pending request as they
\* were and hands nothing to the audit callback; a processApproval for the
\* same id that carries an assertion, then or at any time up to the
\* request's expiry, returns the signed instruction.
C35_MissingSignatureChangesNothing ==
    [][(ret'.op = "processApproval" /\ ret'.err = "MissingSignature") =>
        /\ proposals' = proposals
        /\ pendingApprovals' = pendingApprovals
        /\ ret'.audit = <<>>
        /\ \A request \in RequestsFor(ret'.id) :
           \A t \in {now'} \cup {request.expiresAt} :
              LET later == processApproval(proposals', pendingApprovals', t,
                              [proposalId |-> ret'.id, approved |-> TRUE,
                               webAuthnAuth |-> <<"assertion">>])
              IN  /\ later.err = "none"
                  /\ later.value.callData = request.userOp.callData
                  /\ later.proposals[ret'.id].status = APPROVED]_vars

\* an approval without assertion has failed on a proposal awaiting approval
C35_Witness ==
    /\ ret.op = "processApproval"
    /\ ret.err = "MissingSignature"
    /\ proposals[ret.id].status = PENDING_APPROVAL
    /\ MapHas(pendingApprovals, ret.id)

-----------------------------------------------------------------------------
(* Specification SpecKeys: two SecureSessionKeyManager instances.  m1 holds *)
(* master key K1; m2 holds K1 or K2.                                        *)

KeyRet(op, m, address, err, value) ==
    [op |-> op, manager |-> m, address |-> address, err |-> err, value |-> value]

Addresses == {privateKeyToAccount(bytesToHex(pk)).address : pk \in PrivKeys}

InitKeys ==
    /\ now = 0
    /\ approvalTimeout = <<>>
    /\ proposals = <<>>
    /\ pendingApprovals = <<>>
    /\ autoExecuteThreshold = <<>>
    /\ isRunning = FALSE
    /\ signedOps = {}
    /\ encryptionKey \in {f \in [Managers -> MasterKeys] : f["m1"] = "K1"}
    /\ encryptedKeys = [m \in Managers |-> <<>>]
    /\ yieldConfig = <<>>
    /\ history = <<>>
    /\ ret = [op |-> "new"]
    /\ vault = <<>>

\* Date.now() / 1000 is compared with validUntil: half seconds and whole ones
KeysTick == Tick({500, 1000}, 1000)

GenerateSessionKey ==
    \E m \in Managers, pk \in PrivKeys, iv \in IVs, config \in SessionKeyConfigs :
        LET r == generateSessionKey(encryptedKeys[m], encryptionKey[m], pk, iv, config) IN
        /\ encryptedKeys' = [encryptedKeys EXCEPT ![m] = r.keys]
        /\ ret' = KeyRet("generateSessionKey", m, r.value.address, "none", r.value)
        /\ UNCHANGED <<vault, now, flowVars, agentVars, encryptionKey, yieldVars>>

ImportSessionKey ==
    \E m \in Managers, pk \in PrivKeys, iv \in IVs, config \in SessionKeyConfigs :
        LET r == importSessionKey(encryptedKeys[m], encryptionKey[m],
                                  bytesToHex(pk), iv, config) IN
        /\ encryptedKeys' = [encryptedKeys EXCEPT ![m] = r.keys]
        /\ ret' = KeyRet("importSessionKey", m, r.value.address, "none", r.value)
        /\ UNCHANGED <<vault, now, flowVars, agentVars, encryptionKey, yieldVars>>

\* The record loaded is one a manager exported (getEncryptedKey's result,
\* kept in a database): the other manager's, or this one's own.
LoadEncryptedKey ==
    \E m \in Managers, from \in Managers :
        \E a \in DOMAIN encryptedKeys[from] :
            /\ encryptedKeys' = [encryptedKeys EXCEPT
                                    ![m] = loadEncryptedKey(@, encryptedKeys[from][a])]
            /\ ret' = KeyRet("loadEncryptedKey", m, a, "none", NoValue)
            /\ UNCHANGED <<vault, now, flowVars, agentVars, encryptionKey, yieldVars>>

GetEncryptedKey ==
    \E m \in Managers, a \in Addresses :
        /\ ret' = KeyRet("getEncryptedKey", m, a, "none", getEncryptedKey(encryptedKeys[m], a))
        /\ UNCHANGED <<vault, now, flowVars, agentVars, keyVars, yieldVars>>

DecryptForSigning ==
    \E m \in Managers, a \in Addresses :
        LET r == decryptForSigning(encryptedKeys[m], encryptionKey[m], now, a) IN
        /\ ret' = [op |-> "decryptForSigning", manager |-> m, address |-> a,
                   err |-> r.err, value |-> r.value, decrypted |-> r.decrypted]
        /\ UNCHANGED <<vault, now, flowVars, agentVars, keyVars, yieldVars>>

RevokeSessionKey ==
    \E m \in Managers, a \in Addresses :
        LET r == revokeSessionKey(encryptedKeys[m], a) IN
        /\ encryptedKeys' = [encryptedKeys EXCEPT ![m] = r.keys]
        /\ ret' = KeyRet("revokeSessionKey", m, a, "none", [result |-> r.value])
        /\ UNCHANGED <<vault, now, flowVars, agentVars, encryptionKey, yieldVars>>

ListSessionKeys ==
    \E m \in Managers :
        /\ ret' = KeyRet("listSessionKeys", m, <<>>, "none",
                         [result |-> listSessionKeys(encryptedKeys[m])])
        /\ UNCHANGED <<vault, now, flowVars, agentVars, keyVars, yieldVars>>

GetValidSessionKeys ==
    \E m \in Managers :
        /\ ret' = KeyRet("getValidSessionKeys", m, <<>>, "none",
                         [result |-> getValidSessionKeys(encryptedKeys[m], now)])
        /\ UNCHANGED <<vault, now, flowVars, agentVars, keyVars, yieldVars>>

KeyCleanupExpired ==
    \E m \in Managers :
        LET r == keyCleanupExpired(encryptedKeys[m], now) IN
        /\ encryptedKeys' = [encryptedKeys EXCEPT ![m] = r.keys]
        /\ ret' = KeyRet("cleanupExpired", m, <<>>, "none", [result |-> r.value])
        /\ UNCHANGED <<vault, now, flowVars, agentVars, encryptionKey, yieldVars>>

NextKeys ==
    \/ KeysTick
    \/ GenerateSessionKey
    \/ ImportSessionKey
    \/ LoadEncryptedKey
    \/ GetEncryptedKey
    \/ DecryptForSigning
    \/ RevokeSessionKey
    \/ ListSessionKeys
    \/ GetValidSessionKeys
    \/ KeyCleanupExpired

SpecKeys == InitKeys /\ [][NextKeys]_vars

-----------------------------------------------------------------------------
(* Specification SpecAgent: one AgentRunner, its ApprovalFlow (default     *)
(* timeout) and its SecureSessionKeyManager.  The configured session key   *)
(* address is the account of the configured private key.                   *)

AgentManager == "agent"
AgentMasterKey == "K1"
AgentSessionKeyPrivate == bytesToHex(<<"key", 1>>)
AgentSessionKeyAddress == privateKeyToAccount(AgentSessionKeyPrivate).address
AgentIv == <<"iv", 1>>
SessionKeyValiditySeconds == 7 * 24 * 60 * 60
AgentSpendLimit == 1000 * 1000000

Thresholds == {<<>>, <<AUTO_EXECUTE_THRESHOLD>>}
AgentAmounts == {0} \cup Amounts
CycleOutcomes == {"noRebalance", "buildThrows", "submitThrows", "reverted", "success"}

\* (mutant) the comparison turned round
withinAutoExecuteThreshold_flipped(amount, threshold) ==
    threshold /= <<>> /\ amount >= threshold[1]

\* amount <= this.config.autoExecuteThreshold!  (false when it is undefined)
withinAutoExecuteThreshold(amount, threshold) ==
    threshold /= <<>> /\ amount <= threshold[1]

\* buildRebalanceData + buildExecuteStrategyOp: the instruction of a proposal
buildExecuteStrategyOp(proposal) == [callData |-> 1, signature |-> <<>>]

signWithSessionKey_passkeyTag(userOp, sessionKey) ==
    [userOp EXCEPT !.signature = <<SIG_TYPE_PASSKEY, sessionKey.address>>]

signWithSessionKey(userOp, sessionKey) ==
    [userOp EXCEPT !.signature = <<SIG_TYPE_SESSION_KEY, sessionKey.address>>]

loadSessionKey(K, key, t) ==
    IF getEncryptedKey(K, AgentSessionKeyAddress) /= Undefined
    THEN K
    ELSE importSessionKey(K, key, AgentSessionKeyPrivate, AgentIv,
                          [validUntil |-> (t \div 1000) + SessionKeyValiditySeconds,
                           spendLimit |-> AgentSpendLimit]).keys

\* The session-key lane: what autoExecute signs, if it gets to sign
autoExecute(K, key, t, proposal, outcome) ==
    LET sessionKey == decryptForSigning(K, key, t, AgentSessionKeyAddress) IN
    IF sessionKey.err /= "none"
    THEN [err |-> sessionKey.err, signed |-> {}]
    ELSE IF outcome = "buildThrows"
    THEN [err |-> "BuildError", signed |-> {}]
    ELSE [err |-> IF outcome = "submitThrows" THEN "SubmitError" ELSE "none",
          signed |-> {[proposalId |-> proposal.id,
                       userOp |-> signWithSessionKey(buildExecuteStrategyOp(proposal),
                                                     sessionKey.value)]}]

\* The hand-off to the human lane: the pending set after AgentRunner.requestApproval
agentRequestApproval(Q, proposal, outcome) ==
    IF outcome = "buildThrows"
    THEN [err |-> "BuildError", pending |-> Q]
    ELSE [err |-> "none",
          pending |-> requestApproval(Q, proposal, buildExecuteStrategyOp(proposal))]

checkAndRebalance(P, Q, K, key, threshold, t, amount, outcome) ==
    IF outcome = "noRebalance" \/ amount = 0
    THEN [proposals |-> P, pending |-> Q, signed |-> {}, id |-> 0,
          lane |-> "none", err |-> "none"]
    ELSE LET P2 == createProposal(P, <<>>, t, amount)
             proposal == P2[nanoid(P)]
         IN  IF withinAutoExecuteThreshold(amount, threshold)
             THEN LET r == autoExecute(K, key, t, proposal, outcome) IN
                  [proposals |-> P2, pending |-> Q, signed |-> r.signed,
                   id |-> proposal.id, lane |-> "autoExecute", err |-> r.err]
             ELSE LET r == agentRequestApproval(Q, proposal, outcome) IN
                  [proposals |-> P2, pending |-> r.pending, signed |-> {},
                   id |-> proposal.id, lane |-> "requestApproval", err |-> r.err]

InitAgent ==
    /\ now = 0
    /\ approvalTimeout = <<>>
    /\ proposals = <<>>
    /\ pendingApprovals = <<>>
    /\ autoExecuteThreshold \in Thresholds
    /\ isRunning = FALSE
    /\ signedOps = {}
    /\ encryptionKey = [m \in {AgentManager} |-> AgentMasterKey]
    /\ encryptedKeys = [m \in {AgentManager} |-> <<>>]
    /\ yieldConfig = <<>>
    /\ history = <<>>
    /\ ret = [op |-> "new"]
    /\ vault = <<>>

\* Approvals expire after a day and the session key after seven
AgentTick == Tick({7 * DEFAULT_TIMEOUT}, 7 * DEFAULT_TIMEOUT)

AgentStart ==
    /\ ~isRunning
    /\ isRunning' = TRUE
    /\ encryptedKeys' = [encryptedKeys EXCEPT
            ![AgentManager] = loadSessionKey(@, encryptionKey[AgentManager], now)]
    /\ ret' = [op |-> "start"]
    /\ UNCHANGED <<vault, now, flowVars, autoExecuteThreshold, signedOps, encryptionKey, yieldVars>>

AgentStop ==
    /\ isRunning
    /\ isRunning' = FALSE
    /\ ret' = [op |-> "stop"]
    /\ UNCHANGED <<vault, now, flowVars, autoExecuteThreshold, signedOps, keyVars, yieldVars>>

AgentCheckAndRebalance ==
    \E amount \in AgentAmounts, outcome \in CycleOutcomes :
        LET r == checkAndRebalance(proposals, pendingApprovals,
                                   encryptedKeys[AgentManager], encryptionKey[AgentManager],
                                   autoExecuteThreshold, now, amount, outcome) IN
        /\ isRunning
        /\ Cardinality(DOMAIN proposals) < MaxProposals
        /\ proposals' = r.proposals
        /\ pendingApprovals' = r.pending
        /\ signedOps' = signedOps \cup r.signed
        /\ ret' = [op |-> "checkAndRebalance", id |-> r.id, amount |-> amount,
                   lane |-> r.lane, err |-> r.err]
        /\ UNCHANGED <<vault, now, approvalTimeout, autoExecuteThreshold, isRunning, keyVars, yieldVars>>

\* AgentRunner.processApproval: always an approving response
AgentProcessApproval ==
    \E id \in ProposalIds, auth \in WebAuthnAuths, outcome \in {"submitThrows", "success"} :
        LET r == processApproval(proposals, pendingApprovals, now,
                     [proposalId |-> id, approved |-> TRUE, webAuthnAuth |-> auth]) IN
        /\ proposals' = r.proposals
        /\ pendingApprovals' = r.pending
        /\ signedOps' = IF r.err = "none"
                        THEN signedOps \cup {[proposalId |-> id, userOp |-> r.value]}
                        ELSE signedOps
        /\ ret' = [op |-> "processApproval", id |-> id,
                   err |-> IF r.err = "none" /\ outcome = "submitThrows"
                           THEN "SubmitError" ELSE r.err]
        /\ UNCHANGED <<vault, now, approvalTimeout, autoExecuteThreshold, isRunning, keyVars, yieldVars>>

NextAgent ==
    \/ AgentTick
    \/ AgentStart
    \/ AgentStop
    \/ AgentCheckAndRebalance
    \/ AgentProcessApproval

SpecAgent == InitAgent /\ [][NextAgent]_vars

-----------------------------------------------------------------------------
(* Numbers.  A rate is a JavaScript number; the model computes with exact  *)
(* fractions n/d (d > 0, lowest terms) of a rate unit.  RateHistory only    *)
(* compares rates with each other, so any unit will do; YieldMonitor reads *)
(* rates in hundredths of a basis point, so a spot rate of 3.00% is 30000. *)
(* Times in the rate history are counted in minutes.                       *)

RECURSIVE GCD(_, _)
GCD(a, b) == IF b = 0 THEN a ELSE GCD(b, a % b)

Abs(x) == IF x < 0 THEN 0 - x ELSE x

Frac(n, d) ==
    LET g == GCD(Abs(n), d) IN
    IF n = 0 THEN [n |-> 0, d |-> 1] ELSE [n |-> n \div g, d |-> d \div g]

Num(i) == [n |-> i, d |-> 1]

Minus(a, b) == Frac(a.n * b.d - b.n * a.d, a.d * b.d)
\* a / b, for b > 0
Over(a, b) == Frac(a.n * b.d, a.d * b.n)
MathAbs(a) == [n |-> Abs(a.n), d |-> a.d]
Less(a, b) == a.n * b.d < b.n * a.d
\* Math.round: the nearest integer, a half rounded up
MathRound(a) == (2 * a.n + a.d) \div (2 * a.d)

Min(a, b) == IF a < b THEN a ELSE b

-----------------------------------------------------------------------------
(* RateHistory *)

MinutesPerHour == 60
DEFAULT_HISTORY_WINDOW_MS == 24 * MinutesPerHour
MAX_ENTRIES_PER_PROTOCOL == 1000
RATE_VELOCITY_THRESHOLD == Frac(1, 2)
RATE_VELOCITY_WINDOW_MS == MinutesPerHour

\* entries.slice(-n)
SliceLast(entries, n) ==
    IF Len(entries) > n THEN SubSeq(entries, Len(entries) - n + 1, Len(entries))
    ELSE entries

\* (mutant) the number of entries is not limited
record_unlimited(entries, t, windowMs, entry) ==
    SelectSeq(Append(entries, entry), LAMBDA e : e.timestamp >= t - windowMs)

\* RateHistory.record: the entries of entry.protocolId after the call
record(entries, t, windowMs, entry) ==
    LET cutoff == t - windowMs
        pruned == SelectSeq(Append(entries, entry), LAMBDA e : e.timestamp >= cutoff)
    IN  IF Len(pruned) > MAX_ENTRIES_PER_PROTOCOL
        THEN SliceLast(pruned, MAX_ENTRIES_PER_PROTOCOL)
        ELSE pruned

\* (mutant) the samples are not cut to the window
getEntries_wholeHistory(entries, t, windowMs) == entries

getEntries(entries, t, windowMs) ==
    SelectSeq(entries, LAMBDA e : e.timestamp >= t - windowMs)

\* (mutant) the samples are taken in recording order
sortByTimestamp_unsorted(entries) == entries

\* [...entries].sort((a, b) => a.timestamp - b.timestamp): stable
RECURSIVE sortByTimestamp(_)
sortByTimestamp(entries) ==
    IF Len(entries) <= 1 THEN entries
    ELSE LET last == entries[Len(entries)]
             front == sortByTimestamp(SubSeq(entries, 1, Len(entries) - 1))
             k == Cardinality({i \in 1..Len(front) : front[i].timestamp <= last.timestamp})
         IN  SubSeq(front, 1, k) \o <<last>> \o SubSeq(front, k + 1, Len(front))

RECURSIVE weightedSum(_, _)
weightedSum(sorted, i) ==
    IF i >= Len(sorted) THEN 0
    ELSE sorted[i].apy * (sorted[i + 1].timestamp - sorted[i].timestamp)
            + weightedSum(sorted, i + 1)

RECURSIVE totalWeight(_, _)
totalWeight(sorted, i) ==
    IF i >= Len(sorted) THEN 0
    ELSE (sorted[i + 1].timestamp - sorted[i].timestamp) + totalWeight(sorted, i + 1)

\* RateHistory.getTWAP: <<>> for null, else <<TWAPResult>>
getTWAP(allEntries, t, windowHours) ==
    LET entries == getEntries(allEntries, t, windowHours * MinutesPerHour) IN
    IF Len(entries) = 0 THEN <<>>
    ELSE IF Len(entries) = 1
    THEN <<[twap |-> Num(entries[1].apy), sampleCount |-> 1,
            oldestSample |-> entries[1].timestamp,
            newestSample |-> entries[1].timestamp]>>
    ELSE LET sorted == sortByTimestamp(entries)
             lastEntry == sorted[Len(sorted)]
             timeSinceLast == Min(t - lastEntry.timestamp, MinutesPerHour)
             sum == weightedSum(sorted, 1) + lastEntry.apy * timeSinceLast
             weight == totalWeight(sorted, 1) + timeSinceLast
         IN  <<[twap |-> IF weight > 0 THEN Frac(sum, weight) ELSE Num(lastEntry.apy),
                sampleCount |-> Len(sorted),
                oldestSample |-> sorted[1].timestamp,
                newestSample |-> lastEntry.timestamp]>>

\* (mutant) one sample is taken for enough
insufficientData_onlyEmpty(entries) == Len(entries) < 1

\* entries.length < 2
insufficientData(entries) == Len(entries) < 2

NotSuspicious == [suspicious |-> FALSE, reason |-> "none", severity |-> "none", details |-> <<>>]

\* RateHistory.detectAnomalies; currentRate is optional
detectAnomalies(allEntries, t, currentRate) ==
    LET entries == getEntries(allEntries, t, RATE_VELOCITY_WINDOW_MS) IN
    IF insufficientData(entries)
    THEN [suspicious |-> FALSE, reason |-> "insufficient_data", severity |-> "low",
          details |-> <<>>]
    ELSE LET sorted == sortByTimestamp(entries)
             latest == IF currentRate /= <<>> THEN currentRate[1]
                       ELSE Num(sorted[Len(sorted)].apy)
             oldest == Num(sorted[1].apy)
             changePercent == Over(MathAbs(Minus(latest, oldest)), oldest)
             twapResult == getTWAP(allEntries, t, 1)
             twap == twapResult[1].twap
             deviation == Over(MathAbs(Minus(latest, twap)), twap)
         IN  IF Less(Num(0), oldest) /\ Less(RATE_VELOCITY_THRESHOLD, changePercent)
             THEN [suspicious |-> TRUE, reason |-> "high_rate_velocity",
                   severity |-> IF Less(Num(1), changePercent) THEN "high" ELSE "medium",
                   details |-> <<[currentRate |-> latest, previousRate |-> oldest,
                                  changePercent |-> changePercent,
                                  timeWindowMs |-> RATE_VELOCITY_WINDOW_MS]>>]
             ELSE IF /\ twapResult /= <<>>
                     /\ Less(Num(0), twap)
                     /\ Less(Frac(1, 5), deviation)
             THEN [suspicious |-> TRUE, reason |-> "twap_deviation",
                   severity |-> IF Less(Frac(1, 2), deviation) THEN "high" ELSE "medium",
                   details |-> <<[currentRate |-> latest, previousRate |-> twap,
                                  changePercent |-> deviation,
                                  timeWindowMs |-> MinutesPerHour]>>]
             ELSE NotSuspicious

getLatestRate(entries) == IF Len(entries) = 0 THEN <<>> ELSE <<entries[Len(entries)]>>

-----------------------------------------------------------------------------
(* Specification SpecHistory: one RateHistory, the samples of one source.  *)
(* The clock counts minutes and advances by half hours.                    *)

MaxSamples == 2         \* samples recorded per source

HistoryProtocol == "aave"
HistoryRates == {0, 500, 510, 1000}
CurrentRates == {<<>>} \cup {<<Num(r)>> : r \in HistoryRates \cup {700}}
HistoryWindows == {MinutesPerHour, DEFAULT_HISTORY_WINDOW_MS}
HalfHour == MinutesPerHour \div 2
\* a caller stamps a sample itself: with Date.now(), or as an observation made
\* half an hour ago (so samples need not be recorded in timestamp order)
SampleTimes(t) == {t - HalfHour, t}

InitHistory ==
    /\ now = 0
    /\ approvalTimeout = <<>>
    /\ proposals = <<>>
    /\ pendingApprovals = <<>>
    /\ autoExecuteThreshold = <<>>
    /\ isRunning = FALSE
    /\ signedOps = {}
    /\ encryptionKey = <<>>
    /\ encryptedKeys = <<>>
    /\ yieldConfig \in [windowMs : HistoryWindows]
    /\ history = [p \in {HistoryProtocol} |-> <<>>]
    /\ ret = [op |-> "new"]
    /\ vault = <<>>

HistoryTick == Tick({HalfHour}, MinutesPerHour)

Record ==
    \E apy \in HistoryRates, ts \in SampleTimes(now) :
        LET entry == [apy |-> apy, timestamp |-> ts] IN
        /\ Len(history[HistoryProtocol]) < MaxSamples
        /\ history' = [history EXCEPT
                          ![HistoryProtocol] = record(@, now, yieldConfig.windowMs, entry)]
        /\ ret' = [op |-> "record", entry |-> entry]
        /\ UNCHANGED <<vault, now, flowVars, agentVars, keyVars, yieldConfig>>

GetTWAP ==
    \E windowHours \in {1, 2} :
        /\ ret' = [op |-> "getTWAP", windowHours |-> windowHours,
                   value |-> getTWAP(history[HistoryProtocol], now, windowHours)]
        /\ UNCHANGED <<vault, now, flowVars, agentVars, keyVars, yieldVars>>

DetectAnomalies ==
    \E currentRate \in CurrentRates :
        /\ ret' = [op |-> "detectAnomalies", currentRate |-> currentRate,
                   value |-> detectAnomalies(history[HistoryProtocol], now, currentRate)]
        /\ UNCHANGED <<vault, now, flowVars, agentVars, keyVars, yieldVars>>

Clear ==
    /\ history' = [p \in DOMAIN history |-> <<>>]
    /\ ret' = [op |-> "clear"]
    /\ UNCHANGED <<vault, now, flowVars, agentVars, keyVars, yieldConfig>>

NextHistory ==
    \/ HistoryTick
    \/ Record
    \/ GetTWAP
    \/ DetectAnomalies
    \/ Clear

SpecHistory == InitHistory /\ [][NextHistory]_vars

-----------------------------------------------------------------------------
(* Specification SpecRetention: one RateHistory that is filled up to its   *)
(* limit of entries.  Samples are stamped with the time of the call; the   *)
(* clock advances by hours, and only while the history is short, which     *)
(* keeps the number of different histories small.                          *)

RetentionRate == 500

RetentionTick ==
    /\ Len(history[HistoryProtocol]) < MaxSamples
    /\ Tick({MinutesPerHour}, MinutesPerHour)

RecordNow ==
    LET entry == [apy |-> RetentionRate, timestamp |-> now] IN
    /\ Len(history[HistoryProtocol]) <= MAX_ENTRIES_PER_PROTOCOL
    /\ history' = [history EXCEPT
                      ![HistoryProtocol] = record(@, now, yieldConfig.windowMs, entry)]
    /\ ret' = [op |-> "record", entry |-> entry, before |-> Len(history[HistoryProtocol])]
    /\ UNCHANGED <<vault, now, flowVars, agentVars, keyVars, yieldConfig>>

NextRetention ==
    \/ RetentionTick
    \/ RecordNow

SpecRetention == InitHistory /\ [][NextRetention]_vars

-----------------------------------------------------------------------------
(* YieldMonitor *)

MIN_APY_DIFFERENTIAL_BPS == 50
\* rate units in one basis point: the "* 10000" that turns a rate into bps
RateUnitsPerBp == 100

\* this.protocols, in the order of the constructor
Protocols == <<"aave", "compound", "morpho", "moonwell">>
ProtocolIds == {Protocols[i] : i \in 1..Len(Protocols)}

\* (mutant) a protocol without any rate has its last known rate recorded again
getSnapshot_recordsLastKnown(entries, t, read, id) ==
    IF id \notin read.failing
    THEN [protocolId |-> id, apyPercent |-> Num(read.apy[id]), balance |-> read.balance[id],
          timestamp |-> t, source |-> "onchain", recorded |-> TRUE]
    ELSE IF read.defillama
    THEN [protocolId |-> id, apyPercent |-> Num(read.apy[id]),
          balance |-> IF read.balanceRetry THEN read.balance[id] ELSE 0,
          timestamp |-> t, source |-> "defillama", recorded |-> TRUE]
    ELSE [protocolId |-> id,
          apyPercent |-> IF Len(entries) > 0 THEN Num(entries[Len(entries)].apy) ELSE Num(0),
          balance |-> 0, timestamp |-> t, source |-> "none", recorded |-> TRUE]

\* One protocol's snapshot after the on-chain read, the DeFiLlama fallback or
\* the last known rate.  read.failing: the on-chain reads that were rejected;
\* read.defillama: the fallback has a rate for the protocol; read.balanceRetry:
\* the second balance read succeeds.  recorded: the rate goes to the history.
getSnapshot(entries, t, read, id) ==
    IF id \notin read.failing
    THEN [protocolId |-> id, apyPercent |-> Num(read.apy[id]), balance |-> read.balance[id],
          timestamp |-> t, source |-> "onchain", recorded |-> TRUE]
    ELSE IF read.defillama
    THEN [protocolId |-> id, apyPercent |-> Num(read.apy[id]),
          balance |-> IF read.balanceRetry THEN read.balance[id] ELSE 0,
          timestamp |-> t, source |-> "defillama", recorded |-> TRUE]
    ELSE LET lastRate == getLatestRate(entries) IN
         [protocolId |-> id,
          apyPercent |-> IF lastRate /= <<>> THEN Num(lastRate[1].apy) ELSE Num(0),
          balance |-> 0, timestamp |-> t, source |-> "none", recorded |-> FALSE]

dataSourceOf(snapshots) ==
    LET count(src) == Cardinality({i \in 1..Len(snapshots) : snapshots[i].source = src})
    IN  IF count("defillama") = 0 THEN "onchain"
        ELSE IF count("onchain") = 0 THEN "defillama" ELSE "mixed"

\* (mutant) a protocol without any rate gets no snapshot
getSnapshots_skipsFailed(H, t, windowMs, read) ==
    LET all == [i \in 1..Len(Protocols) |-> getSnapshot(H[Protocols[i]], t, read, Protocols[i])]
        snapshots == SelectSeq(all, LAMBDA s : s.recorded)
    IN  [snapshots |-> snapshots,
         dataSource |-> dataSourceOf(snapshots),
         history |-> [id \in DOMAIN H |->
             IF id \notin read.failing \/ read.defillama
             THEN record(H[id], t, windowMs,
                         [apy |-> read.apy[id], timestamp |-> t,
                          source |-> IF id \in read.failing THEN "defillama" ELSE "onchain"])
             ELSE H[id]]]

\* YieldMonitor.getSnapshots: the snapshots and the history after the records
getSnapshots(H, t, windowMs, read) ==
    LET snapshots == [i \in 1..Len(Protocols) |-> getSnapshot(H[Protocols[i]], t, read, Protocols[i])]
    IN  [snapshots |-> snapshots,
         dataSource |-> dataSourceOf(snapshots),
         history |-> [id \in DOMAIN H |->
             LET i == CHOOSE j \in 1..Len(Protocols) : Protocols[j] = id IN
             IF snapshots[i].recorded
             THEN record(H[id], t, windowMs,
                         [apy |-> read.apy[id], timestamp |-> snapshots[i].timestamp,
                          source |-> snapshots[i].source])
             ELSE H[id]]]

\* snapshots.reduce((best, current) => current.apyPercent > best.apyPercent ? current : best)
RECURSIVE reduceBest(_, _, _)
reduceBest(snapshots, best, i) ==
    IF i > Len(snapshots) THEN best
    ELSE reduceBest(snapshots,
                    IF Less(best.apyPercent, snapshots[i].apyPercent) THEN snapshots[i] ELSE best,
                    i + 1)

\* snapshots.find((s) => s.balance > 0n) || null
findCurrent(snapshots) ==
    LET holders == {i \in 1..Len(snapshots) : snapshots[i].balance > 0} IN
    IF holders = {} THEN <<>>
    ELSE <<snapshots[CHOOSE i \in holders : \A j \in holders : i <= j]>>

\* config.useTWAP && twapResult && twapResult.sampleCount >= 2
twapApplies(entries, t, config) ==
    LET twapResult == getTWAP(entries, t, config.twapWindowHours) IN
    config.useTWAP /\ twapResult /= <<>> /\ twapResult[1].sampleCount >= 2

\* (mutant) the spot rate is kept
effectiveSnapshot_spot(entries, t, config, snapshot) == snapshot

\* the effective snapshot of one protocol: its rate replaced by the TWAP
effectiveSnapshot(entries, t, config, snapshot) ==
    IF twapApplies(entries, t, config)
    THEN [snapshot EXCEPT !.apyPercent = getTWAP(entries, t, config.twapWindowHours)[1].twap]
    ELSE snapshot

\* (mutant) a flag on any protocol blocks the move
rejectReasonOf_anyFlagBlocks(currentProtocol, bestProtocol, apyDifferentialBps, anomalies) ==
    IF currentProtocol = <<>> THEN "no_funds_to_move"
    ELSE IF currentProtocol[1].protocolId = bestProtocol.protocolId
    THEN "already_in_best_protocol"
    ELSE IF apyDifferentialBps < MIN_APY_DIFFERENTIAL_BPS
    THEN "apy_differential_below_threshold"
    ELSE IF DOMAIN anomalies /= {}
    THEN "target_protocol_anomaly_detected"
    ELSE "none"

\* (mutant) the decision does not ask whether any funds are held
rejectReasonOf_ignoresFunds(currentProtocol, bestProtocol, apyDifferentialBps, anomalies) ==
    IF apyDifferentialBps < MIN_APY_DIFFERENTIAL_BPS
    THEN "apy_differential_below_threshold"
    ELSE IF bestProtocol.protocolId \in DOMAIN anomalies
    THEN "target_protocol_anomaly_detected"
    ELSE "none"

rejectReasonOf(currentProtocol, bestProtocol, apyDifferentialBps, anomalies) ==
    IF currentProtocol = <<>> THEN "no_funds_to_move"
    ELSE IF currentProtocol[1].protocolId = bestProtocol.protocolId
    THEN "already_in_best_protocol"
    ELSE IF apyDifferentialBps < MIN_APY_DIFFERENTIAL_BPS
    THEN "apy_differential_below_threshold"
    ELSE IF bestProtocol.protocolId \in DOMAIN anomalies
    THEN "target_protocol_anomaly_detected"
    ELSE "none"

\* YieldMonitor.compareYields: the comparison and the history after it
compareYields(H, t, config, read) ==
    LET got == getSnapshots(H, t, config.windowMs, read)
        snapshots == got.snapshots
        flagged == IF config.enableAnomalyDetection
                   THEN {i \in 1..Len(snapshots) :
                            detectAnomalies(got.history[snapshots[i].protocolId], t,
                                            <<snapshots[i].apyPercent>>).suspicious}
                   ELSE {}
        anomalies == [id \in {snapshots[i].protocolId : i \in flagged} |->
                         detectAnomalies(got.history[id], t,
                             <<snapshots[CHOOSE i \in flagged :
                                   snapshots[i].protocolId = id].apyPercent>>)]
        effectiveSnapshots == [i \in 1..Len(snapshots) |->
            effectiveSnapshot(got.history[snapshots[i].protocolId], t, config, snapshots[i])]
        twapUsed == \E i \in 1..Len(snapshots) :
                        twapApplies(got.history[snapshots[i].protocolId], t, config)
        bestProtocol == reduceBest(effectiveSnapshots, effectiveSnapshots[1], 2)
        currentProtocol == findCurrent(effectiveSnapshots)
        currentApy == IF currentProtocol /= <<>> THEN currentProtocol[1].apyPercent ELSE Num(0)
        apyDifferentialBps ==
            MathRound(Over(Minus(bestProtocol.apyPercent, currentApy), Num(RateUnitsPerBp)))
        rejectReason == rejectReasonOf(currentProtocol, bestProtocol, apyDifferentialBps,
                                       anomalies)
    IN  [history |-> got.history,
         comparison |-> [snapshots |-> effectiveSnapshots,
                         bestProtocol |-> bestProtocol,
                         currentProtocol |-> currentProtocol,
                         apyDifferentialBps |-> apyDifferentialBps,
                         shouldRebalance |-> rejectReason = "none",
                         timestamp |-> t,
                         twapUsed |-> twapUsed,
                         anomalies |-> anomalies,
                         rejectReason |-> rejectReason,
                         dataSource |-> got.dataSource]]

-----------------------------------------------------------------------------
(* Specification SpecYield: one YieldMonitor polling its four protocols.   *)
(* Each poll reads a spot rate and a balance per protocol; the clock counts *)
(* minutes and advances by hours.                                          *)

\* spot rates of compound and morpho; aave and moonwell stay at 3.00%
SpotRates ==
    {[aave |-> 30000, compound |-> cm[1], morpho |-> cm[2], moonwell |-> 30000] :
        cm \in {<<30000, 30000>>, <<34975, 30000>>, <<30000, 52500>>, <<52500, 52500>>}}
\* USDC held per protocol: nowhere, or all of it in one protocol
Balances ==
    {[id \in ProtocolIds |-> IF id \in held THEN 1000 ELSE 0] :
        held \in {{}, {"aave"}, {"compound"}}}
\* the on-chain reads all succeed, or the one of compound is rejected and
\* DeFiLlama either has no rate for it, or has one and the second balance
\* read succeeds
Reads ==
    {[apy |-> a, balance |-> b, failing |-> f[1], defillama |-> f[2], balanceRetry |-> f[3]] :
        a \in SpotRates, b \in Balances,
        f \in {<<{}, FALSE, FALSE>>, <<{"compound"}, FALSE, FALSE>>,
               <<{"compound"}, TRUE, TRUE>>}}

YieldMonitorConfigs ==
    [useTWAP : BOOLEAN, twapWindowHours : {1}, enableAnomalyDetection : BOOLEAN,
     windowMs : {DEFAULT_HISTORY_WINDOW_MS}]

InitYield ==
    /\ now = 0
    /\ approvalTimeout = <<>>
    /\ proposals = <<>>
    /\ pendingApprovals = <<>>
    /\ autoExecuteThreshold = <<>>
    /\ isRunning = FALSE
    /\ signedOps = {}
    /\ encryptionKey = <<>>
    /\ encryptedKeys = <<>>
    /\ yieldConfig \in YieldMonitorConfigs
    /\ history = [id \in ProtocolIds |-> <<>>]
    /\ ret = [op |-> "new"]
    /\ vault = <<>>

YieldTick == Tick({MinutesPerHour}, MinutesPerHour)

CompareYields ==
    \E read \in Reads :
        LET r == compareYields(history, now, yieldConfig, read) IN
        /\ \A id \in ProtocolIds : Len(history[id]) < MaxSamples
        /\ history' = r.history
        /\ ret' = [op |-> "compareYields", read |-> read, value |-> r.comparison]
        /\ UNCHANGED <<vault, now, flowVars, agentVars, keyVars, yieldConfig>>

NextYield ==
    \/ YieldTick
    \/ CompareYields

SpecYield == InitYield /\ [][NextYield]_vars

-----------------------------------------------------------------------------
(* Specification SpecSnapshots: one YieldMonitor whose getSnapshots is     *)
(* called with the on-chain reads of any of several sets of protocols      *)
(* rejected.                                                               *)

SnapshotRates ==
    {[aave |-> a, compound |-> 34975, morpho |-> 52500, moonwell |-> 30000] :
        a \in {30000, 52500}}
SnapshotBalances ==
    {[id \in ProtocolIds |-> IF id \in held THEN 1000 ELSE 0] :
        held \in {{}, {"compound"}}}
\* the protocols whose on-chain read is rejected; whether DeFiLlama has
\* rates; whether the second balance read succeeds
SnapshotFailures ==
    {<<f, FALSE, FALSE>> :
        f \in {{}, {"aave"}, {"compound"}, {"aave", "compound"}, ProtocolIds}}
    \cup {<<{"aave"}, TRUE, FALSE>>, <<{"compound"}, TRUE, TRUE>>, <<ProtocolIds, TRUE, TRUE>>}
SnapshotReads ==
    {[apy |-> a, balance |-> b, failing |-> f[1], defillama |-> f[2], balanceRetry |-> f[3]] :
        a \in SnapshotRates, b \in SnapshotBalances, f \in SnapshotFailures}

InitSnapshots ==
    /\ InitYield
    /\ yieldConfig.useTWAP
    /\ yieldConfig.enableAnomalyDetection

GetSnapshots ==
    \E read \in SnapshotReads :
        LET got == getSnapshots(history, now, yieldConfig.windowMs, read) IN
        /\ \A id \in ProtocolIds : Len(history[id]) < MaxSamples
        /\ history' = got.history
        /\ ret' = [op |-> "getSnapshots", read |-> read,
                   value |-> [snapshots |-> got.snapshots, dataSource |-> got.dataSource]]
        /\ UNCHANGED <<vault, now, flowVars, agentVars, keyVars, yieldConfig>>

NextSnapshots ==
    \/ YieldTick
    \/ GetSnapshots

SpecSnapshots == InitSnapshots /\ [][NextSnapshots]_vars

-----------------------------------------------------------------------------
(* Claims about the yield comparison *)

\* the last step was a comparison; ret.value is the comparison it returned
Compared == ret.op = "compareYields"
SnapshotIndexes == 1..Len(Protocols)
\* the snapshots that report a positive balance
Holders == {i \in SnapshotIndexes : ret.value.snapshots[i].balance > 0}

\* C11: when no snapshot reports a positive balance, the comparison advises
\* no move and gives the reason no_funds_to_move, whatever the rates, the
\* time-weighted values and the anomaly flags are.
C11_NoFundsNoMove ==
    (Compared /\ Holders = {}) =>
        /\ ret.value.shouldRebalance = FALSE
        /\ ret.value.rejectReason = "no_funds_to_move"

\* no funds anywhere, while the best rate is 5.25% against 3.00%, time-weighted
\* values are in use and a protocol is flagged
C11_Witness ==
    /\ Compared
    /\ Holders = {}
    /\ ret.value.rejectReason = "no_funds_to_move"
    /\ ret.value.bestProtocol.apyPercent = Num(52500)
    /\ \E i \in SnapshotIndexes : ret.value.snapshots[i].apyPercent = Num(30000)
    /\ ret.value.twapUsed
    /\ DOMAIN ret.value.anomalies /= {}

\* best effective rate minus current effective rate, in basis points
ExactDifferentialBps ==
    Over(Minus(ret.value.bestProtocol.apyPercent, ret.value.currentProtocol[1].apyPercent),
         Num(RateUnitsPerBp))

\* C12: the comparison advises a move only if some protocol holds a positive
\* balance, the best protocol is not the current one, the best effective rate
\* exceeds the current effective rate by at least 50 basis points, and the
\* best protocol carries no anomaly flag of this cycle.
C12_MoveOnlyIf ==
    (Compared /\ ret.value.shouldRebalance) =>
        /\ Holders /= {}
        /\ ret.value.currentProtocol /= <<>>
        /\ ret.value.bestProtocol.protocolId /= ret.value.currentProtocol[1].protocolId
        /\ ~Less(ExactDifferentialBps, Num(MIN_APY_DIFFERENTIAL_BPS))
        /\ ret.value.bestProtocol.protocolId \notin DOMAIN ret.value.anomalies

\* decision rules 1 to 3: no funds anywhere; the protocol holding the funds
\* already has the highest rate; the differential is below the minimum
NoFunds == Holders = {}
CurrentIsHighest ==
    \A i \in SnapshotIndexes :
        ~Less(ret.value.currentProtocol[1].apyPercent, ret.value.snapshots[i].apyPercent)
BelowThreshold == Less(ExactDifferentialBps, Num(MIN_APY_DIFFERENTIAL_BPS))
Rules1To3Pass == Compared /\ ~NoFunds /\ ~CurrentIsHighest /\ ~BelowThreshold

BestFlagged == ret.value.bestProtocol.protocolId \in DOMAIN ret.value.anomalies
CurrentFlagged == ret.value.currentProtocol[1].protocolId \in DOMAIN ret.value.anomalies

\* what a comparison step reports with anomaly detection switched off
WithoutDetection ==
    compareYields(history, now, [yieldConfig EXCEPT !.enableAnomalyDetection = FALSE],
                  ret'.read).comparison

\* C13: when rules 1 to 3 do not match, the move is blocked with the reason
\* target_protocol_anomaly_detected exactly when the best protocol is
\* flagged, whether or not the current protocol is flagged; flags on other
\* protocols never block it; and a comparison reports the same snapshots,
\* best protocol and differential as it would with anomaly detection off
\* (stated for the monitors that have it on).
C13_AnomalyBlocksTargetOnly ==
    /\ [](Rules1To3Pass =>
            /\ BestFlagged => /\ ret.value.shouldRebalance = FALSE
                              /\ ret.value.rejectReason = "target_protocol_anomaly_detected"
            /\ ~BestFlagged => ret.value.shouldRebalance = TRUE)
    /\ [][(ret'.op = "compareYields" /\ history' /= history
                /\ yieldConfig.enableAnomalyDetection) =>
            /\ Len(ret'.value.snapshots) = Len(Protocols)
            /\ ret'.value.snapshots = WithoutDetection.snapshots
            /\ ret'.value.bestProtocol = WithoutDetection.bestProtocol
            /\ ret'.value.apyDifferentialBps = WithoutDetection.apyDifferentialBps]_vars

\* the best protocol is flagged, the current one is not, the differential is
\* 225 basis points and the move is blocked
C13_Witness ==
    /\ Rules1To3Pass
    /\ BestFlagged
    /\ ~CurrentFlagged
    /\ ret.value.apyDifferentialBps = 225
    /\ ret.value.rejectReason = "target_protocol_anomaly_detected"

\* only the current protocol is flagged and the move is advised
C13_WitnessSourceFlagged ==
    /\ Rules1To3Pass
    /\ CurrentFlagged
    /\ ~BestFlagged
    /\ ret.value.shouldRebalance

\* C14: whenever no protocol has a higher effective rate than the one
\* holding the funds, ties included, the comparison advises no move and
\* gives the reason already_in_best_protocol.
C14_AlreadyInBest ==
    (Compared /\ ~NoFunds /\ CurrentIsHighest) =>
        /\ ret.value.shouldRebalance = FALSE
        /\ ret.value.rejectReason = "already_in_best_protocol"

\* the comparison in ret was made at this instant, on this history
JustCompared == Compared /\ ret.value.timestamp = now
\* the samples of a protocol inside the TWAP window
TwapSamples(id) ==
    {k \in 1..Len(history[id]) :
        /\ history[id][k].timestamp >= now - yieldConfig.twapWindowHours * MinutesPerHour
        /\ history[id][k].timestamp <= now}
\* the rate read in this cycle, or the last known one when no read succeeded
SpotRate(id) ==
    IF id \notin ret.read.failing \/ ret.read.defillama THEN Num(ret.read.apy[id])
    ELSE IF history[id] = <<>> THEN Num(0)
    ELSE Num(history[id][Len(history[id])].apy)
EffectiveRate(id) ==
    IF yieldConfig.useTWAP /\ Cardinality(TwapSamples(id)) >= 2
    THEN getTWAP(history[id], now, yieldConfig.twapWindowHours)[1].twap
    ELSE SpotRate(id)

\* C15: every snapshot carries the effective rate of its protocol (the
\* time-weighted value when time-weighting is on and at least 2 samples lie
\* in the TWAP window, the spot rate otherwise); the best protocol has the
\* highest effective rate; with funds held, the reported differential is
\* the rounded difference of the best and the current effective rate in
\* basis points, and it is this figure that the threshold test uses; rates
\* of 3.00% (current) and 5.25% (best, not flagged) give 225 and a move.
C15_DifferentialFromEffectiveRates ==
    JustCompared =>
        /\ \A i \in SnapshotIndexes :
              /\ ret.value.snapshots[i].protocolId = Protocols[i]
              /\ ret.value.snapshots[i].apyPercent = EffectiveRate(Protocols[i])
              /\ ~Less(ret.value.bestProtocol.apyPercent, EffectiveRate(Protocols[i]))
        /\ ret.value.bestProtocol.apyPercent = EffectiveRate(ret.value.bestProtocol.protocolId)
        /\ ~NoFunds =>
              /\ ret.value.apyDifferentialBps =
                    MathRound(Over(Minus(EffectiveRate(ret.value.bestProtocol.protocolId),
                                         EffectiveRate(ret.value.currentProtocol[1].protocolId)),
                                   Num(RateUnitsPerBp)))
              /\ ret.value.rejectReason = "apy_differential_below_threshold" =>
                    ret.value.apyDifferentialBps < MIN_APY_DIFFERENTIAL_BPS
              /\ ret.value.shouldRebalance =>
                    ret.value.apyDifferentialBps >= MIN_APY_DIFFERENTIAL_BPS
              /\ ( /\ ret.value.currentProtocol[1].apyPercent = Num(30000)
                   /\ ret.value.bestProtocol.apyPercent = Num(52500)
                   /\ ~BestFlagged )
                 => /\ ret.value.apyDifferentialBps = 225
                    /\ ret.value.shouldRebalance = TRUE

\* time-weighting replaces a spot rate of 5.25% by 3.00% in the best or the
\* current protocol, and the differential is taken from the replaced rates
C15_Witness ==
    /\ JustCompared
    /\ ~NoFunds
    /\ ret.value.twapUsed
    /\ \E id \in {ret.value.bestProtocol.protocolId, ret.value.currentProtocol[1].protocolId} :
          /\ SpotRate(id) = Num(52500)
          /\ EffectiveRate(id) = Num(30000)
    /\ ret.value.apyDifferentialBps < 225

\* the example: funds at 3.00%, the best protocol at 5.25%, no flag
C15_WitnessExample ==
    /\ JustCompared
    /\ ret.value.currentProtocol /= <<>>
    /\ ret.value.currentProtocol[1].apyPercent = Num(30000)
    /\ ret.value.bestProtocol.apyPercent = Num(52500)
    /\ DOMAIN ret.value.anomalies = {}
    /\ ret.value.apyDifferentialBps = 225
    /\ ret.value.shouldRebalance

\* the protocols whose on-chain read succeeded in the cycle of ret
PrimaryResolved == ProtocolIds \ ret.read.failing

\* C22: the reported data source is "onchain" exactly when every protocol
\* resolved from its on-chain read, "defillama" exactly when every protocol
\* needed the fallback, and "mixed" in every other case.
C22_DataSource ==
    Compared =>
        /\ ret.value.dataSource = "onchain" <=> PrimaryResolved = ProtocolIds
        /\ ret.value.dataSource = "defillama" <=> PrimaryResolved = {}
        /\ ret.value.dataSource = "mixed" <=> (PrimaryResolved /= ProtocolIds /\ PrimaryResolved /= {})

-----------------------------------------------------------------------------
(* Claims about the snapshots *)

\* a step of getSnapshots; ret' holds its reads and its result
SnapshotsTaken == ret'.op = "getSnapshots" /\ now' = now
\* what the same call returns when the on-chain read of f succeeds as well
SnapshotsWithout(f) ==
    getSnapshots(history, now, yieldConfig.windowMs,
                 [ret'.read EXCEPT !.failing = @ \ {f}]).snapshots

C23_WitnessAllFail ==
    /\ ret.op = "getSnapshots"
    /\ ret.read.failing = ProtocolIds
    /\ ~ret.read.defillama
    /\ Len(ret.value.snapshots) = 4

\* the origin of the rate of a protocol in the cycle of ret', if any
RateOrigin(id) ==
    IF id \notin ret'.read.failing THEN <<"onchain">>
    ELSE IF ret'.read.defillama THEN <<"defillama">>
    ELSE <<>>
LastKnown(id) ==
    IF Len(history[id]) = 0 THEN Num(0) ELSE Num(history[id][Len(history[id])].apy)

-----------------------------------------------------------------------------
(* Claims about the rate history *)

\* The samples of the source inside the window that ends now
Samples(windowMs) ==
    SelectSeq(history[HistoryProtocol],
              LAMBDA e : now - windowMs <= e.timestamp /\ e.timestamp <= now)
SampleRates(windowMs) == {Samples(windowMs)[i].apy : i \in 1..Len(Samples(windowMs))}

C17_TwapNullOrSingleSample ==
    ret.op = "getTWAP" =>
        LET samples == Samples(ret.windowHours * MinutesPerHour) IN
        /\ Len(samples) = 0 => ret.value = <<>>
        /\ Len(samples) = 1 =>
              /\ ret.value /= <<>>
              /\ ret.value[1].twap = Num(samples[1].apy)
              /\ ret.value[1].sampleCount = 1

\* one of two recorded samples has left the one-hour window: the other one's
\* rate is returned as it is
C17_Witness ==
    /\ ret.op = "getTWAP"
    /\ ret.windowHours = 1
    /\ Len(history[HistoryProtocol]) = 2
    /\ Len(Samples(MinutesPerHour)) = 1
    /\ ret.value = <<[twap |-> Num(510), sampleCount |-> 1,
                      oldestSample |-> Samples(MinutesPerHour)[1].timestamp,
                      newestSample |-> Samples(MinutesPerHour)[1].timestamp]>>

\* every recorded sample has left the window: null
C17_WitnessNull ==
    /\ ret.op = "getTWAP"
    /\ Len(history[HistoryProtocol]) > 0
    /\ ret.value = <<>>

\* C18: with fewer than two samples of the source inside the 1-hour velocity
\* window, detectAnomalies returns suspicious = false with reason
\* insufficient_data, whatever the current rate supplied.
C18_InsufficientDataNeverSuspicious ==
    (ret.op = "detectAnomalies" /\ Len(Samples(RATE_VELOCITY_WINDOW_MS)) < 2) =>
        /\ ret.value.suspicious = FALSE
        /\ ret.value.reason = "insufficient_data"

\* one sample at 5% in the window, a current rate of 10% supplied
C18_Witness ==
    /\ ret.op = "detectAnomalies"
    /\ Len(history[HistoryProtocol]) = 2
    /\ Len(Samples(RATE_VELOCITY_WINDOW_MS)) = 1
    /\ Samples(RATE_VELOCITY_WINDOW_MS)[1].apy = 500
    /\ ret.currentRate = <<Num(1000)>>
    /\ ret.value.reason = "insufficient_data"

\* The oldest sample's rate in the velocity window, and the latest rate: the
\* current rate supplied, else the newest sample's
OldestRate == Num(sortByTimestamp(Samples(RATE_VELOCITY_WINDOW_MS))[1].apy)
LatestRate ==
    IF ret.currentRate /= <<>> THEN ret.currentRate[1]
    ELSE LET sorted == sortByTimestamp(Samples(RATE_VELOCITY_WINDOW_MS))
         IN  Num(sorted[Len(sorted)].apy)
\* |latest - oldest| > fraction x oldest
ChangeExceeds(fraction) ==
    LET change == MathAbs(Minus(LatestRate, OldestRate))
    IN  Less([n |-> fraction.n * OldestRate.n, d |-> fraction.d * OldestRate.d], change)

\* C19: with at least two samples in the 1-hour window, detectAnomalies flags
\* the source for velocity whenever |latest - oldest| > 0.5 x oldest, for every
\* oldest rate >= 0, with severity high when the change exceeds 100% of the
\* oldest rate and medium otherwise.
C19_VelocityFlagged ==
    (/\ ret.op = "detectAnomalies"
     /\ Len(Samples(RATE_VELOCITY_WINDOW_MS)) >= 2
     /\ ChangeExceeds(RATE_VELOCITY_THRESHOLD))
        => /\ ret.value.suspicious
           /\ ret.value.reason = "high_rate_velocity"
           /\ ret.value.severity = IF ChangeExceeds(Num(1)) THEN "high" ELSE "medium"

\* The 1-hour time-weighted average of the samples in the window
HourAverage == getTWAP(Samples(RATE_VELOCITY_WINDOW_MS), now, 1)[1].twap
\* |latest - average| > fraction x average
DeviationExceeds(fraction) ==
    LET deviation == MathAbs(Minus(LatestRate, HourAverage))
    IN  Less([n |-> fraction.n * HourAverage.n, d |-> fraction.d * HourAverage.d], deviation)

\* C20: with two samples or more in the window: when the velocity check does
\* not flag, detectAnomalies flags the source for deviation whenever the
\* current rate differs from the 1-hour time-weighted average by more than 20%
\* of it (severity high above 50%, else medium); when both checks would flag
\* the verdict is the velocity verdict; when neither flags it is not suspicious.
C20_DeviationAfterVelocity ==
    (ret.op = "detectAnomalies" /\ Len(Samples(RATE_VELOCITY_WINDOW_MS)) >= 2) =>
        /\ (~ChangeExceeds(RATE_VELOCITY_THRESHOLD) /\ DeviationExceeds(Frac(1, 5)))
              => /\ ret.value.suspicious
                 /\ ret.value.reason = "twap_deviation"
                 /\ ret.value.severity =
                        IF DeviationExceeds(Frac(1, 2)) THEN "high" ELSE "medium"
        /\ (ChangeExceeds(RATE_VELOCITY_THRESHOLD) /\ DeviationExceeds(Frac(1, 5)))
              => ret.value.reason = "high_rate_velocity"
        /\ (~ChangeExceeds(RATE_VELOCITY_THRESHOLD) /\ ~DeviationExceeds(Frac(1, 5)))
              => ret.value = NotSuspicious

\* C21: every protocol's series holds at most MAX_ENTRIES_PER_PROTOCOL
\* samples at all times, and right after a record no sample kept for that
\* protocol is older than the retention window of the history.
C21_BoundedHistory ==
    /\ [](\A p \in DOMAIN history : Len(history[p]) <= MAX_ENTRIES_PER_PROTOCOL)
    /\ [][(ret'.op = "record" /\ now' = now) =>
            \A k \in 1..Len(history'[HistoryProtocol]) :
                history'[HistoryProtocol][k].timestamp >= now - yieldConfig.windowMs]_vars

\* a record into a full series: it still holds the limit of samples
C21_Witness ==
    /\ ret.op = "record"
    /\ Len(history[HistoryProtocol]) = MAX_ENTRIES_PER_PROTOCOL
    /\ ret.entry.timestamp = now

\* a record that drops the sample held before it
C21_WitnessPruned ==
    /\ ret.op = "record"
    /\ ret.entry.timestamp = now
    /\ ret.before = 1
    /\ Len(history[HistoryProtocol]) = 1

-----------------------------------------------------------------------------
(* Claims about the lane routing and the key custody *)

SignedWith(sigType) == {o \in signedOps : o.userOp.signature[1] = sigType}

\* C7: a proposal is signed with the session key only if its amount is at most
\* the auto-execute threshold; a proposal above the threshold is routed to
\* requestApproval; a proposal taken through the session-key lane has no
\* ApprovalRequest, when it is routed and ever after.
C7_LaneFollowsThreshold ==
    /\ \A o \in SignedWith(SIG_TYPE_SESSION_KEY) :
          /\ autoExecuteThreshold /= <<>>
          /\ proposals[o.proposalId].amount <= autoExecuteThreshold[1]
          /\ ~MapHas(pendingApprovals, o.proposalId)
    /\ \A i \in 1..Len(pendingApprovals) :
          \/ autoExecuteThreshold = <<>>
          \/ proposals[pendingApprovals[i].value.proposalId].amount
                > autoExecuteThreshold[1]
    /\ (ret.op = "checkAndRebalance" /\ ret.lane /= "none") =>
          /\ ret.lane = "autoExecute" =>
                /\ autoExecuteThreshold /= <<>>
                /\ ret.amount <= autoExecuteThreshold[1]
                /\ ~MapHas(pendingApprovals, ret.id)
          /\ (autoExecuteThreshold /= <<>> /\ ret.amount > autoExecuteThreshold[1])
                => ret.lane = "requestApproval"

\* both lanes taken: an amount equal to the threshold was signed with the
\* session key
C7_Witness ==
    /\ ret.op = "checkAndRebalance"
    /\ ret.lane = "autoExecute"
    /\ ret.amount = AUTO_EXECUTE_THRESHOLD
    /\ \E o \in SignedWith(SIG_TYPE_SESSION_KEY) : o.proposalId = ret.id

StoredKey == encryptedKeys[ret.manager][ret.address]

\* C8: decryptForSigning fails not-found when no key is stored for the address;
\* with a key stored it fails expired, without decrypting, whenever
\* now >= validUntil; it releases a plaintext only when the key is stored and
\* now < validUntil.
C8_DecryptOnlyBeforeExpiry ==
    ret.op = "decryptForSigning" =>
        IF ret.address \notin DOMAIN encryptedKeys[ret.manager]
        THEN ret.err = "NotFound" /\ ret.value = NoValue
        ELSE /\ now >= StoredKey.config.validUntil * 1000 =>
                  /\ ret.err = "Expired"
                  /\ ~ret.decrypted
                  /\ ret.value = NoValue
             /\ ret.err = "none" => now < StoredKey.config.validUntil * 1000

\* The master key a stored record was encrypted under
SealedUnder(encryptedKey) == fromBase64(encryptedKey.authTag)[2]

\* C9 as stated, for every key whatever its validity: decryptForSigning of a
\* key stored under the manager's own master key returns the plaintext key
\* that derives the address.
C9_RoundTripForEveryKey ==
    (/\ ret.op = "decryptForSigning"
     /\ ret.address \in DOMAIN encryptedKeys[ret.manager]
     /\ SealedUnder(StoredKey) = encryptionKey[ret.manager])
        => /\ ret.err = "none"
           /\ privateKeyToAccount(ret.value.privateKey).address = ret.address

\* C9 (amended): custody round trip.  decryptForSigning of a key that generate
\* or import stored under the manager's own master key, while now < validUntil,
\* returns the plaintext key that derives the address (the imported key
\* itself); on a record encrypted under another master key it fails and returns
\* no plaintext.
C9_CustodyRoundTrip ==
    (ret.op = "decryptForSigning" /\ ret.address \in DOMAIN encryptedKeys[ret.manager]) =>
        /\ (/\ SealedUnder(StoredKey) = encryptionKey[ret.manager]
            /\ now < StoredKey.config.validUntil * 1000)
              => /\ ret.err = "none"
                 /\ ret.value.address = ret.address
                 /\ privateKeyToAccount(ret.value.privateKey).address = ret.address
                 /\ hexToBytes(ret.value.privateKey) \in PrivKeys
        /\ SealedUnder(StoredKey) /= encryptionKey[ret.manager]
              => /\ ret.err /= "none"
                 /\ ret.value = NoValue

\* a key was decrypted under the master key that sealed it, before its expiry
C9_Witness ==
    /\ ret.op = "decryptForSigning"
    /\ ret.address \in DOMAIN encryptedKeys[ret.manager]
    /\ SealedUnder(StoredKey) = encryptionKey[ret.manager]
    /\ now < StoredKey.config.validUntil * 1000
    /\ ret.err = "none"
    /\ privateKeyToAccount(ret.value.privateKey).address = ret.address

\* a record loaded into a manager with another master key was refused
C9_WitnessOtherMasterKey ==
    /\ ret.op = "decryptForSigning"
    /\ ret.address \in DOMAIN encryptedKeys[ret.manager]
    /\ SealedUnder(StoredKey) /= encryptionKey[ret.manager]
    /\ ret.err = "AuthTagMismatch"

PlaintextForms == UNION {{pk, bytesToHex(pk), toBase64(pk)} : pk \in PrivKeys}

\* An EncryptedSessionKey: the five fields, none of them a plaintext key
HoldsNoPlaintext(r) ==
    /\ DOMAIN r = {"address", "encryptedPrivateKey", "iv", "authTag", "config"}
    /\ DOMAIN r.config = {"validUntil", "spendLimit"}
    /\ \A f \in {"encryptedPrivateKey", "iv", "authTag"} : r[f] \notin PlaintextForms

\* C10: no operation other than decryptForSigning returns a plaintext signing
\* key, and every stored record holds ciphertext, nonce, tag and config only.
C10_PlaintextOnlyFromDecrypt ==
    /\ \A m \in DOMAIN encryptedKeys : \A a \in DOMAIN encryptedKeys[m] :
          HoldsNoPlaintext(encryptedKeys[m][a])
    /\ ret.op \in {"generateSessionKey", "importSessionKey"} => HoldsNoPlaintext(ret.value)
    /\ ret.op = "getEncryptedKey" => (ret.value = Undefined \/ HoldsNoPlaintext(ret.value))
    /\ ret.op = "getValidSessionKeys" => \A r \in ret.value.result : HoldsNoPlaintext(r)
    /\ ret.op = "listSessionKeys" => ret.value.result \subseteq Addresses
    /\ ret.op = "revokeSessionKey" => ret.value.result \in BOOLEAN
    /\ ret.op = "cleanupExpired" => ret.value.result \in Nat
    /\ ret.op = "loadEncryptedKey" => ret.value = NoValue

\* a key was generated, stored and handed out again, encrypted
C10_Witness ==
    /\ ret.op = "getEncryptedKey"
    /\ ret.value /= Undefined
    /\ ret.value = encryptedKeys[ret.manager][ret.address]
    /\ \E m \in Managers : \E r \in getValidSessionKeys(encryptedKeys[m], now) :
          r.address = ret.address

-----------------------------------------------------------------------------
(* Specification SpecRevoke: one SecureSessionKeyManager holding the keys  *)
(* of several addresses, some of them revoked.                             *)

\* one private key more than PrivKeys, so that a manager holds two keys
RevokePrivKeys == {<<"key", n>> : n \in 1..MaxPrivKey + 1}

RevokeAddresses == {privateKeyToAccount(bytesToHex(pk)).address : pk \in RevokePrivKeys}

RevokeImport ==
    \E pk \in RevokePrivKeys, iv \in IVs, config \in SessionKeyConfigs :
        LET r == importSessionKey(encryptedKeys["m1"], encryptionKey["m1"],
                                  bytesToHex(pk), iv, config) IN
        /\ encryptedKeys' = [encryptedKeys EXCEPT !["m1"] = r.keys]
        /\ ret' = KeyRet("importSessionKey", "m1", r.value.address, "none", r.value)
        /\ UNCHANGED <<vault, now, flowVars, agentVars, encryptionKey, yieldVars>>

RevokeGetEncryptedKey ==
    \E a \in RevokeAddresses :
        /\ ret' = KeyRet("getEncryptedKey", "m1", a, "none",
                         getEncryptedKey(encryptedKeys["m1"], a))
        /\ UNCHANGED <<vault, now, flowVars, agentVars, keyVars, yieldVars>>

RevokeDecryptForSigning ==
    \E a \in RevokeAddresses :
        LET r == decryptForSigning(encryptedKeys["m1"], encryptionKey["m1"], now, a) IN
        /\ ret' = [op |-> "decryptForSigning", manager |-> "m1", address |-> a,
                   err |-> r.err, value |-> r.value, decrypted |-> r.decrypted]
        /\ UNCHANGED <<vault, now, flowVars, agentVars, keyVars, yieldVars>>

Revoke ==
    \E a \in RevokeAddresses :
        LET r == revokeSessionKey(encryptedKeys["m1"], a) IN
        /\ encryptedKeys' = [encryptedKeys EXCEPT !["m1"] = r.keys]
        /\ ret' = KeyRet("revokeSessionKey", "m1", a, "none", [result |-> r.value])
        /\ UNCHANGED <<vault, now, flowVars, agentVars, encryptionKey, yieldVars>>

NextRevoke ==
    \/ KeysTick
    \/ RevokeImport
    \/ RevokeGetEncryptedKey
    \/ RevokeDecryptForSigning
    \/ Revoke

SpecRevoke == InitKeys /\ [][NextRevoke]_vars

-----------------------------------------------------------------------------
(* Claims about revoking a session key *)

\* the keys of the manager of the step, before and after it
KeysBefore == encryptedKeys[ret'.manager]
KeysAfter == encryptedKeys'[ret'.manager]

\* C30: revokeSessionKey(address) returns true exactly when the manager
\* stored a key for the address, which it then no longer stores; when it
\* returns false nothing has changed.  After the call getEncryptedKey
\* returns undefined for the address, decryptForSigning fails with
\* "No session key found", a second revokeSessionKey returns false, and
\* the key of every other address is stored as it was.
C30_RevokeRemovesOneKey ==
    [][ret'.op = "revokeSessionKey" =>
        LET a == ret'.address IN
        /\ ret'.value.result = (a \in DOMAIN KeysBefore)
        /\ a \notin DOMAIN KeysAfter
        /\ ~ret'.value.result => encryptedKeys' = encryptedKeys
        /\ getEncryptedKey(KeysAfter, a) = Undefined
        /\ decryptForSigning(KeysAfter, encryptionKey'[ret'.manager], now', a).err
              = "NotFound"
        /\ ~revokeSessionKey(KeysAfter, a).value
        /\ DOMAIN KeysAfter = DOMAIN KeysBefore \ {a}
        /\ \A b \in DOMAIN KeysAfter : KeysAfter[b] = KeysBefore[b]
        /\ \A m \in Managers \ {ret'.manager} : encryptedKeys'[m] = encryptedKeys[m]]_vars

\* a key has been revoked in a manager that keeps the key of another address
C30_Witness ==
    /\ ret.op = "revokeSessionKey"
    /\ ret.value.result
    /\ DOMAIN encryptedKeys[ret.manager] /= {}

\* a revoke of an address without a key has returned false
C30_WitnessNothingStored ==
    /\ ret.op = "revokeSessionKey"
    /\ ~ret.value.result
    /\ DOMAIN encryptedKeys[ret.manager] /= {}

-----------------------------------------------------------------------------
(* Specification SpecExpiry: one SecureSessionKeyManager whose keys, of     *)
(* several addresses and validity windows, expire as the clock advances.   *)

ExpiryGetValidSessionKeys ==
    /\ ret' = KeyRet("getValidSessionKeys", "m1", <<>>, "none",
                     [result |-> getValidSessionKeys(encryptedKeys["m1"], now)])
    /\ UNCHANGED <<vault, now, flowVars, agentVars, keyVars, yieldVars>>

ExpiryCleanupExpired ==
    LET r == keyCleanupExpired(encryptedKeys["m1"], now) IN
    /\ encryptedKeys' = [encryptedKeys EXCEPT !["m1"] = r.keys]
    /\ ret' = KeyRet("cleanupExpired", "m1", <<>>, "none", [result |-> r.value])
    /\ UNCHANGED <<vault, now, flowVars, agentVars, encryptionKey, yieldVars>>

NextExpiry ==
    \/ KeysTick
    \/ RevokeImport
    \/ RevokeDecryptForSigning
    \/ ExpiryGetValidSessionKeys
    \/ ExpiryCleanupExpired

SpecExpiry == InitKeys /\ [][NextExpiry]_vars

-----------------------------------------------------------------------------
(* Claims about the expiry of session keys *)

\* the validity window of the key has ended at time t (milliseconds):
\* validUntil, in seconds, is not after t
WindowEnded(key, t) == key.config.validUntil * 1000 <= t

\* C31: cleanupExpired removes exactly the stored keys whose validity
\* window has ended, returns how many it removed and leaves every other
\* key as it was; after it no stored key's window has ended.
C31_CleanupRemovesExactlyExpired ==
    [][ret'.op = "cleanupExpired" =>
        LET before == encryptedKeys[ret'.manager]
            after == encryptedKeys'[ret'.manager]
            ended == {a \in DOMAIN before : WindowEnded(before[a], now)}
        IN  /\ DOMAIN after = DOMAIN before \ ended
            /\ ret'.value.result = Cardinality(ended)
            /\ \A a \in DOMAIN after : after[a] = before[a]
            /\ \A a \in DOMAIN after : ~WindowEnded(after[a], now')
            /\ \A m \in Managers \ {ret'.manager} :
                  encryptedKeys'[m] = encryptedKeys[m]]_vars

\* a cleanup has removed a key and kept another
C31_Witness ==
    /\ ret.op = "cleanupExpired"
    /\ ret.value.result >= 1
    /\ DOMAIN encryptedKeys[ret.manager] /= {}

-----------------------------------------------------------------------------
(* Specification SpecBacklog: one RateHistory filled to its limit, into    *)
(* which a slow poll's sample, observed half an hour before it is          *)
(* recorded, may arrive.  The records are followed until the first such    *)
(* sample has been stored, which keeps the number of histories small.      *)

\* the clock advances by whole hours: a sample stamped on the hour was
\* stamped with the time of its record
StampedOnRecord(entries) ==
    \A i \in 1..Len(entries) : entries[i].timestamp % MinutesPerHour = 0

BacklogRecord ==
    \E ts \in SampleTimes(now) :
        LET entry == [apy |-> RetentionRate, timestamp |-> ts] IN
        /\ StampedOnRecord(history[HistoryProtocol])
        /\ history' = [history EXCEPT
                          ![HistoryProtocol] = record(@, now, yieldConfig.windowMs, entry)]
        /\ ret' = [op |-> "record", entry |-> entry,
                   before |-> Len(history[HistoryProtocol])]
        /\ UNCHANGED <<vault, now, flowVars, agentVars, keyVars, yieldConfig>>

NextBacklog ==
    \/ RetentionTick
    \/ BacklogRecord

SpecBacklog == InitHistory /\ [][NextBacklog]_vars

-----------------------------------------------------------------------------
(* Claims about the hard cap of the rate history *)

\* the samples of the source that are inside the retention window at a
\* record: those held before it and the one recorded
InsideWindow ==
    SelectSeq(Append(history[HistoryProtocol], ret'.entry),
              LAMBDA e : e.timestamp >= now - yieldConfig.windowMs)

\* how many samples of the series were observed after time m
ObservedAfter(entries, m) ==
    Cardinality({i \in 1..Len(entries) : entries[i].timestamp > m})

\* the earliest observedAt among the samples kept by the step
EarliestKept ==
    LET observed == {history'[HistoryProtocol][i].timestamp :
                        i \in 1..Len(history'[HistoryProtocol])}
    IN  CHOOSE m \in observed : \A t \in observed : m <= t

\* C34: when a record leaves more samples inside the window than the hard
\* cap, the samples it drops are the oldest: no dropped sample was observed
\* after the earliest sample that is kept, in whatever order the samples
\* were recorded.
C34_CapDropsOldest ==
    [][(/\ ret'.op = "record"
        /\ now' = now
        /\ Len(InsideWindow) > MAX_ENTRIES_PER_PROTOCOL)
          => \A inside \in {InsideWindow}, earliest \in {EarliestKept} :
                ObservedAfter(inside, earliest)
                    = ObservedAfter(history'[HistoryProtocol], earliest)]_vars

\* decryptForSigning releases the key stored for the address
Releases(m, a) ==
    decryptForSigning(encryptedKeys[m], encryptionKey[m], now, a).err = "none"

\* getValidSessionKeys lists the key stored for the address
Lists(m, a) == encryptedKeys[m][a] \in getValidSessionKeys(encryptedKeys[m], now)

\* cleanupExpired would leave the key stored for the address
Spares(m, a) == a \in DOMAIN keyCleanupExpired(encryptedKeys[m], now).keys

\* C36: at every instant and for every stored key, decryptForSigning
\* releases the key exactly if getValidSessionKeys lists it, and exactly if
\* cleanupExpired would not remove it.
C36_ExpiryTestsAgree ==
    \A a \in DOMAIN encryptedKeys["m1"] :
        /\ Releases("m1", a) <=> Lists("m1", a)
        /\ Releases("m1", a) <=> Spares("m1", a)

\* the two listings agree with each other at every instant
C36_ListingAgreesWithCleanup ==
    \A a \in DOMAIN encryptedKeys["m1"] : Lists("m1", a) <=> Spares("m1", a)

-----------------------------------------------------------------------------
(* Claims about the signatures of the two lanes *)

\* the instruction with another signature, and nothing else changed
OnlySignatureReplaced(unsigned, signed, signature) ==
    signed = [unsigned EXCEPT !.signature = signature]

C37_WitnessSessionKey ==
    /\ ret.op = "checkAndRebalance"
    /\ \E o \in signedOps : o.proposalId = ret.id /\ o.userOp.signature[1] = 1

-----------------------------------------------------------------------------
(* Claims about expiry of proposals without a request *)

\* C38: expiry is time-triggered for every proposal.  Once now has passed the
\* expiresAt of a proposal and cleanupExpired has run, the proposal is no
\* longer PENDING_APPROVAL, whether or not requestApproval was ever called
\* for it.
C38_SweepExpiresEveryProposal ==
    [][(ret'.op = "cleanupExpired" /\ now' = now) =>
          \A p \in DOMAIN proposals' :
              now' > proposals'[p].expiresAt =>
                  proposals'[p].status # PENDING_APPROVAL]_vars

-----------------------------------------------------------------------------
(* Specification SpecCycles: the agent over several poll cycles.  The timer
   set in start calls checkAndRebalance every pollIntervalMs, whatever the
   earlier cycles left behind. *)

CyclesCheckAndRebalance ==
    \E amount \in AgentAmounts, outcome \in CycleOutcomes :
        LET r == checkAndRebalance(proposals, pendingApprovals,
                                   encryptedKeys[AgentManager], encryptionKey[AgentManager],
                                   autoExecuteThreshold, now, amount, outcome) IN
        /\ isRunning
        /\ Cardinality(DOMAIN proposals) < MaxProposals + 1
        /\ proposals' = r.proposals
        /\ pendingApprovals' = r.pending
        /\ signedOps' = signedOps \cup r.signed
        /\ ret' = [op |-> "checkAndRebalance", id |-> r.id, amount |-> amount,
                   lane |-> r.lane, err |-> r.err]
        /\ UNCHANGED <<vault, now, approvalTimeout, autoExecuteThreshold, isRunning, keyVars, yieldVars>>

NextCycles ==
    \/ AgentTick
    \/ AgentStart
    \/ AgentStop
    \/ CyclesCheckAndRebalance
    \/ AgentProcessApproval

SpecCycles == InitAgent /\ [][NextCycles]_vars

\* a proposal that still waits for the owner: PENDING_APPROVAL, with a
\* pending request that has not expired
AwaitingOwner(P, Q, t) ==
    {p \in DOMAIN P : /\ P[p].status = PENDING_APPROVAL
                      /\ MapHas(Q, p)
                      /\ ~requestExpired(t, MapGet(Q, p))}

\* C39: poll cycles do not duplicate financial intent.  While a proposal is
\* still PENDING_APPROVAL with a pending approval request, a later
\* checkAndRebalance cycle creates no second proposal and no second
\* approval request.
C39_CyclesDoNotDuplicate ==
    [][(/\ ret'.op = "checkAndRebalance"
        /\ AwaitingOwner(proposals, pendingApprovals, now) # {})
          => /\ DOMAIN proposals' = DOMAIN proposals
             /\ pendingApprovals' = pendingApprovals]_vars

-----------------------------------------------------------------------------
(* AgentVault: the wallet contract.  One transaction of the EntryPoint
   validates every operation of a bundle, then executes them in the same
   order; block.timestamp does not move, transient storage lives until the
   transaction ends, and an execution that reverts undoes its own writes,
   transient ones included. *)

MaxOps == 2

SECONDS_PER_DAY == 86400

AddressZero == "0x0"
VaultSessionKeys == {"k1", "k2"}
VaultProtocols == {"aave", "unlisted"}
VaultAmounts == {2, 3}

\* a user operation: signature type, the session key named in the signature
\* (address(0) for a passkey), whether the signature verifies, and the call
\* executeStrategy(protocol, data) with the amount that data carries
VaultUserOps ==
    [sigType : {SIG_TYPE_PASSKEY}, key : {AddressZero}, verifies : BOOLEAN,
     protocol : VaultProtocols, amount : VaultAmounts]
    \cup
    [sigType : {SIG_TYPE_SESSION_KEY}, key : VaultSessionKeys, verifies : BOOLEAN,
     protocol : VaultProtocols, amount : VaultAmounts]

Bundles == UNION {[1..n -> VaultUserOps] : n \in 0..MaxOps}

_validatePasskeySignature(userOp) == IF userOp.verifies THEN 0 ELSE 1

\* the validation data, and the transient slot afterwards
_validateSessionKeySignature(v, userOp, timestamp) ==
    LET sk == v.sessionKeys[userOp.key] IN
    IF timestamp >= sk.validUntil THEN [validationData |-> 1, slot |-> v.slot]
    ELSE IF userOp.protocol \notin v.whitelistedProtocols
    THEN [validationData |-> 1, slot |-> v.slot]
    ELSE IF userOp.amount > v.autoExecuteThreshold
    THEN [validationData |-> 1, slot |-> v.slot]
    ELSE IF sk.spent + userOp.amount > sk.spendLimit
    THEN [validationData |-> 1, slot |-> v.slot]
    ELSE IF ~userOp.verifies THEN [validationData |-> 1, slot |-> v.slot]
    ELSE [validationData |-> 0, slot |-> userOp.key]

_validateSignature(v, userOp, timestamp) ==
    IF userOp.sigType = SIG_TYPE_PASSKEY
    THEN [validationData |-> _validatePasskeySignature(userOp), slot |-> v.slot]
    ELSE _validateSessionKeySignature(v, userOp, timestamp)

_updateDailySpend(v, amount, timestamp) ==
    LET today == timestamp \div SECONDS_PER_DAY
        spent == (IF today > v.lastResetDay THEN 0 ELSE v.dailySpent) + amount
    IN  [reverted |-> spent > v.dailyLimit,
         vault |-> [v EXCEPT !.dailySpent = spent,
                             !.lastResetDay = IF today > @ THEN today ELSE @]]

_updateSessionKeySpend(v, amount, timestamp) ==
    LET sessionKeyAddr == v.slot
        today == timestamp \div SECONDS_PER_DAY
        spent == IF today > v.sessionKeyLastResetDay THEN 0 ELSE v.sessionKeyDailySpent
    IN  IF sessionKeyAddr = AddressZero THEN [reverted |-> FALSE, vault |-> v]
        ELSE IF spent + amount > v.sessionKeyDailyCap THEN [reverted |-> TRUE, vault |-> v]
        ELSE [reverted |-> FALSE,
              vault |-> [v EXCEPT
                  !.sessionKeyLastResetDay = IF today > @ THEN today ELSE @,
                  !.sessionKeyDailySpent = spent + amount,
                  !.sessionKeys[sessionKeyAddr].spent = @ + amount,
                  !.slot = AddressZero]]

\* a revert leaves the vault as it was before the call
executeStrategy(v, protocol, amount, timestamp, callSucceeds) ==
    IF protocol \notin v.whitelistedProtocols THEN [reverted |-> TRUE, vault |-> v]
    ELSE LET daily == _updateDailySpend(v, amount, timestamp) IN
         IF daily.reverted THEN [reverted |-> TRUE, vault |-> v]
         ELSE LET session == _updateSessionKeySpend(daily.vault, amount, timestamp) IN
              IF session.reverted \/ ~callSucceeds THEN [reverted |-> TRUE, vault |-> v]
              ELSE [reverted |-> FALSE, vault |-> session.vault]

(* Specification SpecVault: one bundle through the EntryPoint *)

InitVault ==
    /\ now = SECONDS_PER_DAY
    /\ approvalTimeout = <<>>
    /\ proposals = <<>>
    /\ pendingApprovals = <<>>
    /\ autoExecuteThreshold = <<>>
    /\ isRunning = FALSE
    /\ signedOps = {}
    /\ encryptionKey = <<>>
    /\ encryptedKeys = <<>>
    /\ yieldConfig = <<>>
    /\ history = <<>>
    /\ \E bundle \in Bundles :
          vault = [sessionKeys |-> [k \in VaultSessionKeys |->
                                      [validUntil |-> SECONDS_PER_DAY + 1,
                                       spendLimit |-> 3, spent |-> 0]],
                   dailyLimit |-> 5, dailySpent |-> 0, lastResetDay |-> 0,
                   autoExecuteThreshold |-> 2,
                   sessionKeyDailyCap |-> 4, sessionKeyDailySpent |-> 0,
                   sessionKeyLastResetDay |-> 0,
                   whitelistedProtocols |-> {"aave"},
                   slot |-> AddressZero,
                   ops |-> bundle, validated |-> 0, failedOp |-> FALSE,
                   outcomes |-> <<>>]
    /\ ret = [op |-> "new"]

\* the validation loop: a failed validation reverts the whole transaction
VaultValidateUserOp ==
    /\ ~vault.failedOp
    /\ vault.validated < Len(vault.ops)
    /\ LET userOp == vault.ops[vault.validated + 1]
           r == _validateSignature(vault, userOp, now) IN
       /\ vault' = IF r.validationData = 0
                   THEN [vault EXCEPT !.slot = r.slot, !.validated = @ + 1]
                   ELSE [vault EXCEPT !.failedOp = TRUE]
       /\ ret' = [op |-> "validateUserOp", userOp |-> userOp,
                  validationData |-> r.validationData]
    /\ UNCHANGED <<now, flowVars, agentVars, keyVars, yieldVars>>

\* the execution loop, after every operation has been validated
VaultExecuteStrategy ==
    \E callSucceeds \in BOOLEAN :
        /\ ~vault.failedOp
        /\ vault.validated = Len(vault.ops)
        /\ Len(vault.outcomes) < Len(vault.ops)
        /\ LET userOp == vault.ops[Len(vault.outcomes) + 1]
               r == executeStrategy(vault, userOp.protocol, userOp.amount, now,
                                    callSucceeds) IN
           /\ vault' = [r.vault EXCEPT !.outcomes =
                           Append(@, IF r.reverted THEN "reverted" ELSE "executed")]
           /\ ret' = [op |-> "executeStrategy", userOp |-> userOp,
                      reverted |-> r.reverted]
        /\ UNCHANGED <<now, flowVars, agentVars, keyVars, yieldVars>>

NextVault ==
    \/ VaultValidateUserOp
    \/ VaultExecuteStrategy

SpecVault == InitVault /\ [][NextVault]_vars

RECURSIVE SumOf(_, _)
SumOf(amounts, n) == IF n = 0 THEN 0 ELSE amounts[n] + SumOf(amounts, n - 1)

\* what the executed operations validated with one of the keys moved
ExecutedTotal(keys) ==
    SumOf([i \in 1..Len(vault.outcomes) |->
              IF /\ vault.outcomes[i] = "executed"
                 /\ vault.ops[i].sigType = SIG_TYPE_SESSION_KEY
                 /\ vault.ops[i].key \in keys
              THEN vault.ops[i].amount ELSE 0],
          Len(vault.outcomes))

\* C40: every operation validated with a session-key signature and executed
\* through executeStrategy is added to the spent total of that key and to the
\* day's session-key total, an operation validated with a passkey is charged
\* to no key, and so no key's executed total exceeds its spendLimit and the
\* day's session-key total never exceeds sessionKeyDailyCap.
C40_SessionKeySpendAccounted ==
    /\ \A k \in VaultSessionKeys :
          /\ vault.sessionKeys[k].spent = ExecutedTotal({k})
          /\ ExecutedTotal({k}) <= vault.sessionKeys[k].spendLimit
    /\ vault.sessionKeyDailySpent = ExecutedTotal(VaultSessionKeys)
    /\ ExecutedTotal(VaultSessionKeys) <= vault.sessionKeyDailyCap

\* the same with the limits alone
C40_LimitsHold ==
    /\ \A k \in VaultSessionKeys :
          ExecutedTotal({k}) <= vault.sessionKeys[k].spendLimit
    /\ ExecutedTotal(VaultSessionKeys) <= vault.sessionKeyDailyCap

====
